---------------------------- MODULE Spec2Model ----------------------------
(***************************************************************************)
(* Resume parsing and semantic matching pipeline of BehavAced:             *)
(*   backend/app/services/resume_parser.py  (ResumeParser)                 *)
(*   backend/app/services/vector_service.py (VectorService)                *)
(*                                                                         *)
(* A Python str is modelled as a sequence of characters, each character a  *)
(* one-character TLA+ string.  Characters outside ASCII are written by     *)
(* their code point: "U+2022" is the bullet, "U+2013" the en dash,         *)
(* "U+0664" and "U+0660" the Arabic-Indic digits four and zero.            *)
(***************************************************************************)
EXTENDS Integers, Sequences, FiniteSets, TLC

(***************************************************************************)
(* Characters and the str methods the parser uses                          *)
(***************************************************************************)
UpperLetters == <<"A", "B", "C", "D", "E", "F", "G", "H", "I", "J", "K", "L", "M", "N", "O", "P",
        "Q", "R", "S", "T", "U", "V", "W", "X", "Y", "Z">>
LowerLetters == <<"a", "b", "c", "d", "e", "f", "g", "h", "i", "j", "k", "l", "m", "n", "o", "p",
        "q", "r", "s", "t", "u", "v", "w", "x", "y", "z">>
AsciiDigits == {"0", "1", "2", "3", "4", "5", "6", "7", "8", "9"}
\* the decimal digits of other scripts that the inputs below use
OtherDigits == {"U+0664", "U+0660"}
\* regex class \d on str patterns: any Unicode decimal digit
IsDigit(c) == c \in AsciiDigits \cup OtherDigits
\* regex class \s and the characters str.strip() removes
IsSpace(c) == c \in {" ", "\n", "\t"}
IsUpperLetter(c) == \E i \in 1..26 : UpperLetters[i] = c
IsLowerLetter(c) == \E i \in 1..26 : LowerLetters[i] = c
IsLetter(c) == IsUpperLetter(c) \/ IsLowerLetter(c)
\* regex class \w
IsWordChar(c) == IsLetter(c) \/ IsDigit(c) \/ c = "_"

LowerChar(c) == IF IsUpperLetter(c) THEN LowerLetters[CHOOSE i \in 1..26 : UpperLetters[i] = c] ELSE c
UpperChar(c) == IF IsLowerLetter(c) THEN UpperLetters[CHOOSE i \in 1..26 : LowerLetters[i] = c] ELSE c
\* str.lower() and str.upper()
Lower(s) == [i \in 1..Len(s) |-> LowerChar(s[i])]
Upper(s) == [i \in 1..Len(s) |-> UpperChar(s[i])]

\* int() of one digit character
DigitValue(c) ==
    CASE c = "0" -> 0 [] c = "1" -> 1 [] c = "2" -> 2 [] c = "3" -> 3 [] c = "4" -> 4
      [] c = "5" -> 5 [] c = "6" -> 6 [] c = "7" -> 7 [] c = "8" -> 8 [] c = "9" -> 9
      [] c = "U+0660" -> 0 [] c = "U+0664" -> 4
\* int() of a string of digits
RECURSIVE ParseInt(_)
ParseInt(s) == IF s = <<>> THEN 0 ELSE 10 * ParseInt(SubSeq(s, 1,
        Len(s) - 1)) + DigitValue(s[Len(s)])

\* the code point of a character, which is what str comparison orders by
CodePoint(c) ==
    CASE c = "\t" -> 9 [] c = "\n" -> 10 [] c = " " -> 32 [] c = "$" -> 36 [] c = "%" -> 37
      [] c = "'" -> 39 [] c = "*" -> 42 [] c = "+" -> 43 [] c = "," -> 44 [] c = "-" -> 45
      [] c = "." -> 46 [] c = "/" -> 47 [] c = ":" -> 58 [] c = ";" -> 59 [] c = "_" -> 95
      [] c = "|" -> 124 [] c = "U+0660" -> 1632 [] c = "U+0664" -> 1636
      [] c = "U+2013" -> 8211 [] c = "U+2022" -> 8226
      [] c \in AsciiDigits -> 48 + DigitValue(c)
      [] IsUpperLetter(c) -> 64 + (CHOOSE i \in 1..26 : UpperLetters[i] = c)
      [] IsLowerLetter(c) -> 96 + (CHOOSE i \in 1..26 : LowerLetters[i] = c)

SetMin(S) == CHOOSE x \in S : \A y \in S : x <= y
SetMax(S) == CHOOSE x \in S : \A y \in S : x >= y

\* s < t in Python's str ordering (lexicographic by code point)
StrLess(s, t) ==
    LET diff == {i \in 1..SetMin({Len(s), Len(t)}) : s[i] # t[i]}
    IN  IF diff = {} THEN Len(s) < Len(t)
        ELSE CodePoint(s[SetMin(diff)]) < CodePoint(t[SetMin(diff)])

\* sub occurs in s at index i (1-based)
MatchAt(s, i, sub) == i >= 1 /\ i + Len(sub) - 1 <= Len(s) /\ \A j \in 1..Len(sub) : s[i + j - 1] = sub[j]
\* like MatchAt, ignoring case (re.IGNORECASE)
MatchAtIgnoreCase(s, i, sub) ==
    i >= 1 /\ i + Len(sub) - 1 <= Len(s) /\ \A j \in 1..Len(sub) : LowerChar(s[i + j - 1]) = LowerChar(sub[j])
\* the Python expression: sub in s
Contains(s, sub) == \E i \in 1..(Len(s) - Len(sub) + 1) : MatchAt(s, i, sub)
\* any(k in s for k in keywords)
ContainsAny(s, keywords) == \E k \in 1..Len(keywords) : Contains(s, keywords[k])
\* str.startswith
StartsWith(s, prefix) == MatchAt(s, 1, prefix)

\* str.strip()
Strip(s) ==
    LET keep == {i \in 1..Len(s) : ~IsSpace(s[i])}
    IN  IF keep = {} THEN <<>> ELSE SubSeq(s, SetMin(keep), SetMax(keep))

\* the numbers of a set, in increasing order
Ascending(S) == [k \in 1..Cardinality(S) |-> CHOOSE p \in S : Cardinality({q \in S : q < p}) = k - 1]

\* re.split on a character class: s cut at every character of seps
SplitOn(s, seps) ==
    LET cuts == <<0>> \o Ascending({i \in 1..Len(s) : s[i] \in seps}) \o <<Len(s) + 1>>
    IN  [k \in 1..(Len(cuts) - 1) |-> SubSeq(s, cuts[k] + 1, cuts[k + 1] - 1)]

\* s.split(c) for a one-character separator c
Split(s, c) == SplitOn(s, {c})

\* sep.join(parts)
RECURSIVE Join(_, _)
Join(parts, sep) ==
    IF parts = <<>> THEN <<>>
    ELSE IF Len(parts) = 1 THEN parts[1]
    ELSE parts[1] \o sep \o Join(Tail(parts), sep)

\* parts[a:b] for 0 <= a, 0 <= b (a Python slice, clipped to the list)
Slice(parts, a, b) == SubSeq(parts, a + 1, SetMin({b, Len(parts)}))

\* the indexes 1..n that satisfy Test, in increasing order (a filtering loop)
SelectIdx(n, Test(_)) == Ascending({k \in 1..n : Test(k)})

\* the dict d with d[k] = v
Put(d, k, v) == [x \in (DOMAIN d) \cup {k} |-> IF x = k THEN v ELSE d[x]]
EmptyDict == <<>>
EmptyStr == <<>>

(***************************************************************************)
(* The inputs: resume texts                                                *)
(***************************************************************************)
\* the most fragments a generated resume text is made of
MaxFragments == 2

NL == <<"\n">>

\* Scenario A and Scenario B of the specification
ScenarioA == <<"J", "o", "h", "n", " ", "D", "o", "e", "\n", "S", "o", "f", "t", "w", "a", "r",
        "e", " ", "E", "n", "g", "i", "n", "e", "e", "r", "\n", "\n", "E", "X", "P", "E", "R",
        "I", "E", "N", "C", "E", "\n", "S", "e", "n", "i", "o", "r", " ", "E", "n", "g", "i",
        "n", "e", "e", "r", " ", "|", " ", "A", "c", "m", "e", " ", "C", "o", "r", "p", " ", "|",
        " ", "S", "F", " ", "|", " ", "J", "a", "n", " ", "2", "0", "2", "0", " ", "-", " ", "P",
        "r", "e", "s", "e", "n", "t", "\n", "U+2022", " ", "L", "e", "d", " ", "t", "e", "a",
        "m", " ", "o", "f", " ", "5", " ", "e", "n", "g", "i", "n", "e", "e", "r", "s", ",", " ",
        "i", "n", "c", "r", "e", "a", "s", "e", "d", " ", "t", "h", "r", "o", "u", "g", "h", "p",
        "u", "t", " ", "b", "y", " ", "4", "0", "%", "\n">>

ScenarioB == <<"E", "D", "U", "C", "A", "T", "I", "O", "N", "\n", "B", ".", "S", ".", " ", "i",
        "n", " ", "C", "o", "m", "p", "u", "t", "e", "r", " ", "S", "c", "i", "e", "n", "c", "e",
        " ", "|", " ", "M", "I", "T", "\n", "G", "P", "A", ":", " ", "3", ".", "9">>

\* pieces of resume text; a generated text is some of them, one after another
Fragments == {
    <<"J", "o", "h", "n", " ", "D", "o", "e", "\n", "S", "o", "f", "t", "w", "a", "r", "e", " ",
            "E", "n", "g", "i", "n", "e", "e", "r">>,
    <<"E", "X", "P", "E", "R", "I", "E", "N", "C", "E", "\n", "S", "e", "n", "i", "o", "r", " ",
            "E", "n", "g", "i", "n", "e", "e", "r", " ", "|", " ", "A", "c", "m", "e", " ", "C",
            "o", "r", "p", " ", "|", " ", "S", "F", " ", "|", " ", "J", "a", "n", " ", "2", "0",
            "2", "0", " ", "-", " ", "P", "r", "e", "s", "e", "n", "t", "\n", "U+2022", " ", "L",
            "e", "d", " ", "t", "e", "a", "m", " ", "o", "f", " ", "5", " ", "e", "n", "g", "i",
            "n", "e", "e", "r", "s", ",", " ", "i", "n", "c", "r", "e", "a", "s", "e", "d", " ",
            "t", "h", "r", "o", "u", "g", "h", "p", "u", "t", " ", "b", "y", " ", "4", "0",
            "%">>,
    <<"D", "a", "t", "a", " ", "A", "n", "a", "l", "y", "s", "t", " ", "|", " ", "I", "n", "i",
            "t", "e", "c", "h", " ", "|", " ", "N", "Y", " ", "|", " ", "J", "a", "n", " ", "2",
            "0", "1", "9", " ", "-", " ", "S", "e", "p", " ", "2", "0", "2", "2", "\n", "-", " ",
            "W", "o", "r", "k", "e", "d", " ", "w", "i", "t", "h", " ", "3", " ", "t", "e", "a",
            "m", "s", "\n", "*", " ", "R", "e", "c", "e", "i", "v", "e", "d", " ", "a", "w", "a",
            "r", "d", " ", "f", "o", "r", " ", "e", "x", "c", "e", "l", "l", "e", "n", "c",
            "e">>,
    <<"W", "O", "R", "K", " ", "E", "X", "P", "E", "R", "I", "E", "N", "C", "E", "\n", "B", "u",
            "i", "l", "t", " ", "t", "o", "o", "l", "s", " ", "a", "t", " ", "a", " ", "b", "a",
            "n", "k", "\n", "-", " ", "G", "r", "e", "w", " ", "r", "e", "v", "e", "n", "u", "e",
            " ", "b", "y", " ", "U+0664", "U+0660", "%">>,
    <<"Q", "A", " ", "I", "n", "t", "e", "r", "n", " ", "|", " ", "G", "l", "o", "b", "e", "x",
            " ", "|", " ", "L", "A", " ", "|", " ", "2", "0", "1", "9", "-", "2", "0", "2", "1",
            "\n", "-", " ", "W", "r", "o", "t", "e", " ", "P", "y", "t", "h", "o", "n", " ", "t",
            "e", "s", "t", "s">>,
    <<"E", "D", "U", "C", "A", "T", "I", "O", "N", "\n", "B", ".", "S", ".", " ", "i", "n", " ",
            "C", "o", "m", "p", "u", "t", "e", "r", " ", "S", "c", "i", "e", "n", "c", "e", " ",
            "|", " ", "M", "I", "T">>,
    <<"G", "r", "a", "d", "u", "a", "t", "e", "d", " ", "w", "i", "t", "h", " ", "H", "o", "n",
            "o", "r", "s">>,
    <<"G", "P", "A", ":", " ", "3", ".", "5", "\n", "D", "e", "a", "n", "'", "s", " ", "L", "i",
            "s", "t">>,
    <<"G", "P", "A", ":", " ", "3", ".", "4", "9">>,
    <<"S", "K", "I", "L", "L", "S", "\n", "P", "r", "o", "g", "r", "a", "m", "m", "i", "n", "g",
            " ", "L", "a", "n", "g", "u", "a", "g", "e", "s", ":", " ", "P", "y", "t", "h", "o",
            "n", ",", " ", "G", "o", "\n", "T", "o", "o", "l", "s", ":", " ", "G", "i", "t", ";",
            " ", "G", "o">>,
    <<"L", "a", "n", "g", "u", "a", "g", "e", "s", ":", " ", "G", "o", "\n", "T", "e", "c", "h",
            "n", "o", "l", "o", "g", "i", "e", "s", ":", " ", "G", "i", "t">>,
    <<"A", "W", "A", "R", "D", "S", "\n", "-", " ", "H", "a", "c", "k", "a", "t", "h", "o", "n",
            " ", "p", "r", "i", "z", "e", "\n", "*", " ", "P", "a", "t", "e", "n", "t", " ", "h",
            "o", "l", "d", "e", "r">> }

RECURSIVE TextsOfLength(_)
TextsOfLength(n) ==
    IF n = 1 THEN Fragments
    ELSE {t \o NL \o f : t \in TextsOfLength(n - 1), f \in Fragments}

ResumeTexts == {ScenarioA, ScenarioB} \cup UNION {TextsOfLength(n) : n \in 1..MaxFragments}

\* the most lines of a text given to _identify_sections alone
MaxSectionLines == 2

\* lines of a resume as far as the sections go: headers of one section, headers
\* with keywords of two sections, and lines of no section
SectionLines == {
    <<"J", "a", "n", "e", " ", "D", "o", "e">>,
    <<>>,
    <<" ", " ", "W", "o", "r", "k", " ", "E", "x", "p", "e", "r", "i", "e", "n", "c", "e", " ",
            " ">>,
    <<"E", "D", "U", "C", "A", "T", "I", "O", "N">>,
    <<"L", "e", "a", "d", "e", "r", "s", "h", "i", "p", " ", "E", "x", "p", "e", "r", "i", "e",
            "n", "c", "e">>,
    <<"H", "o", "n", "o", "r", "s", " ", "a", "n", "d", " ", "A", "w", "a", "r", "d", "s">>,
    <<"E", "d", "u", "c", "a", "t", "i", "o", "n", " ", "a", "n", "d", " ", "E", "m", "p", "l",
            "o", "y", "m", "e", "n", "t">>,
    <<"T", "e", "c", "h", "n", "i", "c", "a", "l", " ", "S", "k", "i", "l", "l", "s", " ", "&",
            " ", "P", "r", "o", "j", "e", "c", "t", "s">> }

RECURSIVE TextsOfLines(_)
TextsOfLines(n) ==
    IF n = 1 THEN SectionLines
    ELSE {t \o NL \o line : t \in TextsOfLines(n - 1), line \in SectionLines}

SectionTexts == UNION {TextsOfLines(n) : n \in 1..MaxSectionLines}

(***************************************************************************)
(* ResumeParser._identify_sections                                         *)
(***************************************************************************)
\* section_keywords, in the order of the dict
SectionKeywords == <<
    [name |-> "experience", keywords |-> <<<<"E", "X", "P", "E", "R", "I", "E", "N", "C", "E">>,
            <<"W", "O", "R", "K", " ", "E", "X", "P", "E", "R", "I", "E", "N", "C", "E">>, <<"E",
            "M", "P", "L", "O", "Y", "M", "E", "N", "T">>, <<"P", "R", "O", "F", "E", "S", "S",
            "I", "O", "N", "A", "L", " ", "E", "X", "P", "E", "R", "I", "E", "N", "C", "E">>>>],
    [name |-> "education", keywords |-> <<<<"E", "D", "U", "C", "A", "T", "I", "O", "N">>, <<"A",
            "C", "A", "D", "E", "M", "I", "C", " ", "B", "A", "C", "K", "G", "R", "O", "U", "N",
            "D">>>>],
    [name |-> "skills", keywords |-> <<<<"S", "K", "I", "L", "L", "S">>, <<"T", "E", "C", "H",
            "N", "I", "C", "A", "L", " ", "S", "K", "I", "L", "L", "S">>, <<"T", "E", "C", "H",
            "N", "O", "L", "O", "G", "I", "E", "S">>, <<"C", "O", "M", "P", "E", "T", "E", "N",
            "C", "I", "E", "S">>>>],
    [name |-> "projects", keywords |-> <<<<"P", "R", "O", "J", "E", "C", "T", "S">>, <<"P", "E",
            "R", "S", "O", "N", "A", "L", " ", "P", "R", "O", "J", "E", "C", "T", "S">>, <<"S",
            "I", "D", "E", " ", "P", "R", "O", "J", "E", "C", "T", "S">>>>],
    [name |-> "achievements", keywords |-> <<<<"A", "C", "H", "I", "E", "V", "E", "M", "E", "N",
            "T", "S">>, <<"A", "W", "A", "R", "D", "S">>, <<"H", "O", "N", "O", "R", "S">>,
            <<"C", "E", "R", "T", "I", "F", "I", "C", "A", "T", "I", "O", "N", "S">>, <<"L", "E",
            "A", "D", "E", "R", "S", "H", "I", "P">>>>] >>

\* the inner loop that goes on after a match: the last section one of whose
\* keywords the line contains
SectionOfLineLast(line) ==
    LET line_upper == Upper(Strip(line))
        hits == {k \in 1..Len(SectionKeywords) : ContainsAny(line_upper, SectionKeywords[k].keywords)}
    IN  IF hits = {} THEN "none" ELSE SectionKeywords[SetMax(hits)].name

\* the inner loop with its break: the first section one of whose keywords the
\* line contains, or "none"
SectionOfLine(line) ==
    LET line_upper == Upper(Strip(line))
        hits == {k \in 1..Len(SectionKeywords) : ContainsAny(line_upper, SectionKeywords[k].keywords)}
    IN  IF hits = {} THEN "none" ELSE SectionKeywords[SetMin(hits)].name

\* the loop over the lines from line i (1-based) on: sections[section_name] = i
RECURSIVE ScanSections(_, _, _)
ScanSections(lines, i, sections) ==
    IF i > Len(lines) THEN sections
    ELSE LET name == SectionOfLine(lines[i])
         IN  ScanSections(lines, i + 1, IF name = "none" THEN sections ELSE Put(sections, name, i - 1))

\* a dict from section name to the zero-based index of its header line
IdentifySections(text) == ScanSections(Split(text, "\n"), 1, EmptyDict)

\* [v for k, v in sections.items() if k != name and v > after]
OtherSectionStarts(sections, name, after) ==
    {sections[k] : k \in {k \in DOMAIN sections : k # name /\ sections[k] > after}}

(***************************************************************************)
(* ResumeParser._split_into_roles                                          *)
(***************************************************************************)
RoleHeaderKeywords == <<<<"i", "n", "t", "e", "r", "n">>, <<"e", "n", "g", "i", "n", "e", "e",
        "r">>, <<"d", "e", "v", "e", "l", "o", "p", "e", "r">>, <<"m", "a", "n", "a", "g", "e",
        "r">>, <<"a", "s", "s", "i", "s", "t", "a", "n", "t">>, <<"a", "n", "a", "l", "y", "s",
        "t">>, <<"l", "e", "a", "d">>>>

\* "this looks like a role header", of a stripped line
IsRoleHeader(line) == Contains(line, <<"|">>) /\ ContainsAny(Lower(line), RoleHeaderKeywords)

\* the loop over the lines from line i on; blocks and current_block are lists of lines
RECURSIVE SplitLoop(_, _, _, _)
SplitLoop(lines, i, blocks, current_block) ==
    IF i > Len(lines)
    THEN IF current_block # <<>> THEN Append(blocks, Join(current_block, NL)) ELSE blocks
    ELSE LET line == Strip(lines[i])
         IN  IF line = <<>> THEN SplitLoop(lines, i + 1, blocks, current_block)
             ELSE IF IsRoleHeader(line)
             THEN SplitLoop(lines, i + 1,
                            IF current_block # <<>> THEN Append(blocks, Join(current_block,
                                    NL)) ELSE blocks,
                            <<line>>)
             ELSE SplitLoop(lines, i + 1, blocks, Append(current_block, line))

\* SplitIntoRoles without the append after the loop: the last block is lost
SplitIntoRolesWithoutLast(text) ==
    LET blocks == SplitLoop(Split(text, "\n"), 1, <<>>, <<>>)
    IN  SubSeq(blocks, 1, Len(blocks) - 1)

\* the blocks of the text, each the lines of one role joined by newlines
SplitIntoRoles(text) == SplitLoop(Split(text, "\n"), 1, <<>>, <<>>)

(***************************************************************************)
(* ResumeParser._parse_date_range                                          *)
(***************************************************************************)
\* the index of the last character of the run of Class characters that starts at
\* index i (i - 1 when s[i] is not in the class): a greedy Class*
RunEnd(s, i, Class(_)) ==
    LET stop == {j \in i..Len(s) : ~Class(s[j])}
    IN  IF stop = {} THEN SetMax({Len(s), i - 1}) ELSE SetMin(stop) - 1

\* \d{4} at index i
FourDigitsAt(s, i) == i + 3 <= Len(s) /\ \A j \in i..(i + 3) : IsDigit(s[j])

\* (\w+\s+\d{4}) at index i: the index of its last character, 0 for no match
MonthYearEnd(s, i) ==
    LET w == RunEnd(s, i, IsWordChar)
        sp == RunEnd(s, w + 1, IsSpace)
    IN  IF w >= i /\ sp >= w + 1 /\ FourDigitsAt(s, sp + 1) THEN sp + 4 ELSE 0

\* \s*[-U+2013]\s* at index i: the index after it, 0 for no match
DashEnd(s, i) ==
    LET d == RunEnd(s, i, IsSpace) + 1
    IN  IF d <= Len(s) /\ s[d] \in {"-", "U+2013"} THEN RunEnd(s, d + 1, IsSpace) + 1 ELSE 0

\* (Present|Current) at index i, ignoring case: the index of its last character, 0 for no match
PresentEnd(s, i) ==
    IF MatchAtIgnoreCase(s, i, <<"P", "r", "e", "s", "e", "n", "t">>) \/ MatchAtIgnoreCase(s, i,
            <<"C", "u", "r", "r", "e", "n", "t">>) THEN i + 6 ELSE 0

\* the two groups of a match that starts at i: the first ends at e1, the
\* second is from b to e2; <<>> when the second part did not match (e2 = 0)
Groups(s, i, e1, b, e2) == IF e2 = 0 THEN <<>> ELSE <<SubSeq(s, i, e1), SubSeq(s, b, e2)>>

\* the index after the dash that follows a first group ending at e1, 0 for no match
AfterDash(s, e1) == IF e1 = 0 THEN 0 ELSE DashEnd(s, e1 + 1)

MonthYearFrom(s, i, e1, b) == Groups(s, i, e1, b, IF b = 0 THEN 0 ELSE MonthYearEnd(s, b))

PresentFrom(s, i, e1, b) == Groups(s, i, e1, b, IF b = 0 THEN 0 ELSE PresentEnd(s, b))

YearFrom(s, i, b) == Groups(s, i, i + 3, b, IF b # 0 /\ FourDigitsAt(s, b) THEN b + 3 ELSE 0)

MonthYearThen(s, i, e1, Second(_, _, _, _)) == Second(s, i, e1, AfterDash(s, e1))

\* the three patterns; each gives, for a start index i, the two groups or <<>>
\* (\w+\s+\d{4})\s*[-U+2013]\s*(\w+\s+\d{4})
MonthYearToMonthYear(s, i) == MonthYearThen(s, i, MonthYearEnd(s, i), MonthYearFrom)

\* (\d{4})\s*[-U+2013]\s*(\d{4})
YearToYear(s, i) == YearFrom(s, i, IF FourDigitsAt(s, i) THEN DashEnd(s, i + 4) ELSE 0)

\* (\w+\s+\d{4})\s*[-U+2013]\s*(Present|Current)
MonthYearToPresent(s, i) == MonthYearThen(s, i, MonthYearEnd(s, i), PresentFrom)

\* the groups of the match at the least of the start indexes
MatchAtFirst(s, Pattern(_, _), starts) == IF starts = {} THEN <<>> ELSE Pattern(s, SetMin(starts))

\* re.search: the groups of the leftmost match of a pattern, <<>> for None
Search(s, Pattern(_, _)) == MatchAtFirst(s, Pattern, {i \in 1..Len(s) : Pattern(s, i) # <<>>})

\* the first of the three matches that is one, stripped
FirstMatch(m1, m2, m3) ==
    IF m1 # <<>> THEN <<Strip(m1[1]), Strip(m1[2])>>
    ELSE IF m2 # <<>> THEN <<Strip(m2[1]), Strip(m2[2])>>
    ELSE IF m3 # <<>> THEN <<Strip(m3[1]), Strip(m3[2])>>
    ELSE <<EmptyStr, EmptyStr>>

\* (start, end) of a date range string; the first pattern that matches decides
ParseDateRange(date_str) ==
    IF date_str = <<>> THEN <<EmptyStr, EmptyStr>>
    ELSE FirstMatch(Search(date_str, MonthYearToMonthYear), Search(date_str, YearToYear),
                    Search(date_str, MonthYearToPresent))

(***************************************************************************)
(* ResumeParser._parse_role_block                                          *)
(***************************************************************************)
TechStackKeywords == <<
    <<"p", "y", "t", "h", "o", "n">>, <<"j", "a", "v", "a", "s", "c", "r", "i", "p", "t">>,
            <<"j", "a", "v", "a">>, <<"r", "e", "a", "c", "t">>, <<"n", "o", "d", "e">>, <<"s",
            "q", "l">>, <<"p", "o", "s", "t", "g", "r", "e", "s", "q", "l">>, <<"m", "o", "n",
            "g", "o", "d", "b">>,
    <<"d", "o", "c", "k", "e", "r">>, <<"k", "u", "b", "e", "r", "n", "e", "t", "e", "s">>,
            <<"a", "w", "s">>, <<"a", "z", "u", "r", "e">>, <<"g", "c", "p">>, <<"g", "i", "t">>,
            <<"t", "e", "r", "r", "a", "f", "o", "r", "m">>, <<"a", "n", "s", "i", "b", "l",
            "e">>,
    <<"f", "l", "a", "s", "k">>, <<"d", "j", "a", "n", "g", "o">>, <<"e", "x", "p", "r", "e",
            "s", "s">>, <<"s", "p", "r", "i", "n", "g">>, <<"a", "n", "g", "u", "l", "a", "r">>,
            <<"v", "u", "e">>, <<"t", "y", "p", "e", "s", "c", "r", "i", "p", "t">>,
    <<"s", "c", "i", "k", "i", "t", "-", "l", "e", "a", "r", "n">>, <<"t", "e", "n", "s", "o",
            "r", "f", "l", "o", "w">>, <<"p", "y", "t", "o", "r", "c", "h">>, <<"p", "a", "n",
            "d", "a", "s">>, <<"n", "u", "m", "p", "y">> >>

ContributionIndicators == << <<"l", "e", "d">>, <<"d", "e", "s", "i", "g", "n", "e", "d">>,
        <<"i", "m", "p", "l", "e", "m", "e", "n", "t", "e", "d">>, <<"c", "r", "e", "a", "t",
        "e", "d">>, <<"b", "u", "i", "l", "t">>, <<"d", "e", "v", "e", "l", "o", "p", "e", "d">>,
        <<"i", "n", "i", "t", "i", "a", "t", "e", "d">> >>

ScopeWords == << <<"l", "a", "u", "n", "c", "h", "e", "d">>, <<"d", "e", "p", "l", "o", "y", "e",
        "d">>, <<"p", "r", "o", "d", "u", "c", "t", "i", "o", "n">>, <<"u", "s", "e", "r", "s">>,
        <<"c", "u", "s", "t", "o", "m", "e", "r", "s">>, <<"s", "t", "a", "k", "e", "h", "o",
        "l", "d", "e", "r", "s">> >>

TeamWords == << <<"t", "e", "a", "m">>, <<"l", "e", "d">>, <<"c", "o", "l", "l", "a", "b", "o",
        "r", "a", "t", "e", "d", " ", "w", "i", "t", "h">>, <<"w", "o", "r", "k", "e", "d", " ",
        "w", "i", "t", "h">> >>

BulletMarkers == {"U+2022", "-", "*"}

\* line.startswith one of the three bullet markers
IsBulletLine(line) == line # <<>> /\ line[1] \in BulletMarkers

\* the line as it is, its marker left in place
KeepBulletMarker(line) == line

\* re.sub(r'^[bullet markers]\s*', '', line)
RemoveBulletMarker(line) ==
    IF IsBulletLine(line) THEN SubSeq(line, RunEnd(line, 2, IsSpace) + 1, Len(line)) ELSE line

\* one alternative of (\d+%|\$\d+[KMB]?|\d+\+|\d+[KMB]?) at index i: the index
\* of the last character of the match of the first alternative that matches, 0 for none
QuantifierEnd(s, i) ==
    LET d == RunEnd(s, i, IsDigit)
        m == IF s[i] = "$" THEN RunEnd(s, i + 1, IsDigit) ELSE 0
        Suffix(e) == IF e + 1 <= Len(s) /\ s[e + 1] \in {"K", "M", "B"} THEN e + 1 ELSE e
    IN  IF d >= i /\ d + 1 <= Len(s) /\ s[d + 1] = "%" THEN d + 1
        ELSE IF s[i] = "$" /\ m >= i + 1 THEN Suffix(m)
        ELSE IF d >= i /\ d + 1 <= Len(s) /\ s[d + 1] = "+" THEN d + 1
        ELSE IF d >= i THEN Suffix(d)
        ELSE 0

\* re.findall of the quantifier pattern from index i on: the matched strings, left to right
RECURSIVE FindQuantifiers(_, _)
FindQuantifiers(s, i) ==
    IF i > Len(s) THEN <<>>
    ELSE LET e == QuantifierEnd(s, i)
         IN  IF e = 0 THEN FindQuantifiers(s, i + 1)
             ELSE <<SubSeq(s, i, e)>> \o FindQuantifiers(s, e + 1)

\* [tech for tech in self.tech_stack_keywords if tech in bullet_lower]
FoundTech(bullet_lower) ==
    LET idx == Ascending({k \in 1..Len(TechStackKeywords) : Contains(bullet_lower, TechStackKeywords[k])})
    IN  [k \in 1..Len(idx) |-> TechStackKeywords[idx[k]]]

\* (?:team|led|collaborated with|worked with)\s+(\d+) at index i, ignoring case:
\* the digits of the group, <<>> for no match
TeamSizeAt(s, i) ==
    LET words == {k \in 1..Len(TeamWords) : MatchAtIgnoreCase(s, i, TeamWords[k])}
        after == i + Len(TeamWords[SetMin(words)])
        sp == RunEnd(s, after, IsSpace)
        d == RunEnd(s, sp + 1, IsDigit)
    IN  IF words # {} /\ sp >= after /\ d >= sp + 1 THEN <<SubSeq(s, sp + 1, d)>> ELSE <<>>

\* Accomplishment with has_quantifier taken from the bullet, not from the quantifiers found
AccomplishmentOfAnyBullet(bullet) ==
    [text |-> bullet,
     has_quantifier |-> Len(bullet) > 0,
     has_tech |-> Len(FoundTech(Lower(bullet))) > 0,
     is_personal_contribution |-> ContainsAny(Lower(bullet), ContributionIndicators)]

\* the accomplishment record of one bullet
Accomplishment(bullet) ==
    [text |-> bullet,
     has_quantifier |-> Len(FindQuantifiers(bullet, 1)) > 0,
     has_tech |-> Len(FoundTech(Lower(bullet))) > 0,
     is_personal_contribution |-> ContainsAny(Lower(bullet), ContributionIndicators)]

\* team_context after the bullets 1..n: the last bullet with a team-size match sets it
RECURSIVE TeamContext(_, _)
TeamContext(bullets, n) ==
    IF n = 0 THEN EmptyDict
    ELSE LET team_match == Search(bullets[n], TeamSizeAt)
         IN  IF team_match # <<>>
             THEN [size |-> ParseInt(team_match[1]), description |-> bullets[n]]
             ELSE TeamContext(bullets, n - 1)

\* the elements of a list of lists, one list after another (list.extend in a loop)
RECURSIVE Flatten(_)
Flatten(lists) == IF lists = <<>> THEN <<>> ELSE lists[1] \o Flatten(Tail(lists))

SeqRange(s) == {s[i] : i \in 1..Len(s)}

\* parts = [p.strip() for p in header.split('|')]
HeaderParts(header) ==
    LET parts == Split(header, "|")
    IN  [k \in 1..Len(parts) |-> Strip(parts[k])]

\* the bullets of the lines after the header: the stripped lines that start
\* with a bullet marker, without the marker
BulletsOf(stripped) ==
    LET bullet_idx == Ascending({k \in 1..Len(stripped) : IsBulletLine(stripped[k])})
    IN  [k \in 1..Len(bullet_idx) |-> RemoveBulletMarker(stripped[bullet_idx[k]])]

Bullets(lines) == BulletsOf([k \in 1..(Len(lines) - 1) |-> Strip(lines[k + 1])])

\* the bullets at the indexes idx, in order
Pick(bullets, idx) == [k \in 1..Len(idx) |-> bullets[idx[k]]]

\* the role dict, from the parts of the header, the parsed dates and the bullets
\* with their accomplishment records
RoleRecord(block, header_parts, date_range, dates, bullets, accomplishments) ==
    LET quantified == Ascending({k \in 1..Len(bullets) : accomplishments[k].has_quantifier})
        personal == Ascending({k \in 1..Len(bullets) : accomplishments[k].is_personal_contribution})
        scope == Ascending({k \in 1..Len(bullets) : ContainsAny(Lower(bullets[k]), ScopeWords)})
    IN  [role_title |-> header_parts[1],
         company |-> IF Len(header_parts) > 1 THEN header_parts[2] ELSE EmptyStr,
         location |-> IF Len(header_parts) > 2 THEN header_parts[3] ELSE EmptyStr,
         start_date |-> dates[1],
         end_date |-> dates[2],
         date_range |-> date_range,
         accomplishments |-> accomplishments,
         quantified_outcomes |-> [k \in 1..Len(quantified) |->
                                     [metric |-> bullets[quantified[k]],
                                      values |-> FindQuantifiers(bullets[quantified[k]], 1)]],
         kpis |-> Pick(bullets, quantified),
         tech_stack |-> SeqRange(Flatten([k \in 1..Len(bullets) |-> FoundTech(Lower(bullets[k]))])),
         team_context |-> TeamContext(bullets, Len(bullets)),
         scope_indicators |-> Pick(bullets, scope),
         personal_contributions |-> Pick(bullets, personal),
         raw_text |-> block]

RoleOfParts(block, header_parts, date_range, bullets) ==
    RoleRecord(block, header_parts, date_range, ParseDateRange(date_range), bullets,
               [k \in 1..Len(bullets) |-> Accomplishment(bullets[k])])

RoleOfHeader(block, header_parts, bullets) ==
    RoleOfParts(block, header_parts, IF Len(header_parts) > 3 THEN header_parts[4] ELSE EmptyStr, bullets)

RoleOfLines(block, lines) == RoleOfHeader(block, HeaderParts(lines[1]), Bullets(lines))

\* the record of one role block.  The code returns None only for a block with
\* no lines, which str.split never produces.
ParseRoleBlock(block) == RoleOfLines(block, Split(block, "\n"))

(***************************************************************************)
(* ResumeParser._extract_work_experience                                   *)
(***************************************************************************)
\* list.sort(key=end_date, reverse=True) adds x to a list sorted so far: the
\* sort is stable, so x goes after the elements whose key is not less than its own
InsertByEndDate(sorted, x) ==
    LET less == {k \in 1..Len(sorted) : StrLess(sorted[k].end_date, x.end_date)}
        at == IF less = {} THEN Len(sorted) + 1 ELSE SetMin(less)
    IN  SubSeq(sorted, 1, at - 1) \o <<x>> \o SubSeq(sorted, at, Len(sorted))

RECURSIVE SortByEndDate(_)
SortByEndDate(experiences) ==
    IF experiences = <<>> THEN <<>>
    ELSE InsertByEndDate(SortByEndDate(SubSeq(experiences, 1, Len(experiences) - 1)),
                         experiences[Len(experiences)])

\* the lines of the experience region
ExperienceLines(text, sections) ==
    LET lines == Split(text, "\n")
        exp_start == IF "experience" \in DOMAIN sections THEN sections["experience"] ELSE 0
        others == OtherSectionStarts(sections, "experience", -1)
        exp_end == IF others = {} THEN Len(lines) ELSE SetMin(others)
    IN  Slice(lines, exp_start, exp_end)

ExtractWorkExperience(text, sections) ==
    LET role_blocks == SplitIntoRoles(Join(ExperienceLines(text, sections), NL))
    IN  SortByEndDate([k \in 1..Len(role_blocks) |-> ParseRoleBlock(role_blocks[k])])

(***************************************************************************)
(* ResumeParser._extract_skills                                            *)
(***************************************************************************)
\* the (category, keywords) list of the parsing loop, in its order
SkillCategories == <<
    [category |-> "languages", keywords |-> << <<"L", "a", "n", "g", "u", "a", "g", "e", "s",
            ":">>, <<"P", "r", "o", "g", "r", "a", "m", "m", "i", "n", "g", " ", "L", "a", "n",
            "g", "u", "a", "g", "e", "s", ":">> >>],
    [category |-> "frameworks", keywords |-> << <<"F", "r", "a", "m", "e", "w", "o", "r", "k",
            "s", ":">>, <<"F", "r", "a", "m", "e", "w", "o", "r", "k", "s", "/", "T", "o", "o",
            "l", "s", ":">> >>],
    [category |-> "tools", keywords |-> << <<"T", "o", "o", "l", "s", ":">>, <<"T", "e", "c",
            "h", "n", "o", "l", "o", "g", "i", "e", "s", ":">> >>],
    [category |-> "concepts", keywords |-> << <<"C", "o", "n", "c", "e", "p", "t", "s", ":">>,
            <<"K", "n", "o", "w", "l", "e", "d", "g", "e", ":">> >> ] >>

CategoryNames == {SkillCategories[k].category : k \in 1..Len(SkillCategories)}

NotNewline(c) == c # "\n"
IsColonOrSpace(c) == c = ":" \/ IsSpace(c)

\* the lines of a section: from its header line to the next section header after
\* it, or to the end of the text
SectionText(text, sections, name) ==
    LET lines == Split(text, "\n")
        others == OtherSectionStarts(sections, name, sections[name])
        end == IF others = {} THEN Len(lines) ELSE SetMin(others)
    IN  Join(Slice(lines, sections[name], end), NL)

\* keyword\s*:?\s*(.+?)(?:\n|$) at index i, ignoring case: <<group 1>>, or <<>>
\* for no match.  A try is <<k1, c, k2>>: the first \s* takes k1 characters, the
\* :? takes c, the second \s* takes k2; the group then starts at a character that
\* is not a newline and runs to the end of its line.  The regex engine takes the
\* first try that works, longest \s* first and the colon before no colon; none
\* of the three takes more than the spaces and colons that follow the keyword.
SkillsGroupAt(s, i, keyword) ==
    LET p == i + Len(keyword)
        Start(t) == p + t[1] + t[2] + t[3]
        Works(t) == /\ p + t[1] - 1 <= RunEnd(s, p, IsSpace)
                    /\ t[2] = 1 => (p + t[1] <= Len(s) /\ s[p + t[1]] = ":")
                    /\ Start(t) - 1 <= RunEnd(s, p + t[1] + t[2], IsSpace)
                    /\ Start(t) <= Len(s)
                    /\ s[Start(t)] # "\n"
        most == RunEnd(s, p, IsColonOrSpace) - p + 1
        tries == {t \in (0..most) \X {0, 1} \X (0..most) : Works(t)}
        Before(t, u) == \/ t[1] > u[1]
                        \/ t[1] = u[1] /\ t[2] > u[2]
                        \/ t[1] = u[1] /\ t[2] = u[2] /\ t[3] >= u[3]
        first == CHOOSE t \in tries : \A u \in tries : Before(t, u)
    IN  IF MatchAtIgnoreCase(s, i, keyword) /\ p <= Len(s) /\ tries # {}
        THEN <<SubSeq(s, Start(first), RunEnd(s, Start(first), NotNewline))>>
        ELSE <<>>

\* the skills one keyword adds to its category: [] when the keyword is not in the
\* text or the pattern does not match
SkillsOfKeyword(skills_text, keyword) ==
    LET match == Search(skills_text, LAMBDA s, i : SkillsGroupAt(s, i, keyword))
        parts == SplitOn(match[1], {",", ";"})
    IN  IF Contains(Lower(skills_text), Lower(keyword)) /\ match # <<>>
        THEN [k \in 1..Len(parts) |-> Strip(parts[k])]
        ELSE <<>>

\* skills_by_category after the parsing loop
SkillsByCategory(text, sections) ==
    [c \in CategoryNames |->
        IF "skills" \in DOMAIN sections
        THEN LET entry == SkillCategories[CHOOSE k \in 1..Len(SkillCategories) : SkillCategories[k].category = c]
             IN  Flatten([k \in 1..Len(entry.keywords) |->
                             SkillsOfKeyword(SectionText(text, sections, "skills"), entry.keywords[k])])
        ELSE <<>>]

\* the roles a skill is linked to, in work_experience order
LinkedRoles(skill, work) ==
    LET skill_lower == Lower(skill)
        RoleText(role) == Lower(role.role_title \o <<" ">> \o role.raw_text)
        Linked(role) ==
            \/ Contains(RoleText(role), skill_lower)
            \/ \E k \in 1..Len(TechStackKeywords) :
                  Contains(TechStackKeywords[k], skill_lower) /\ Contains(RoleText(role), TechStackKeywords[k])
        idx == SelectIdx(Len(work), LAMBDA k : Linked(work[k]))
    IN  [k \in 1..Len(idx) |-> [role_title |-> work[idx[k]].role_title, company |-> work[idx[k]].company]]

\* the distinct elements of a list, each at its first place
Distinct(items) ==
    LET firsts == SelectIdx(Len(items), LAMBDA i : \A j \in 1..(i - 1) : items[j] # items[i])
    IN  [k \in 1..Len(firsts) |-> items[firsts[k]]]

\* the orders in which a set of n elements can be listed: the order of a set's
\* elements is not specified
SetOrders(n) == {order \in [1..n -> 1..n] : \A a, b \in 1..n : a # b => order[a] # order[b]}

\* ListOfSet without the set: list(items)
ListOfAll(items, order) == items

\* list(set(items)): the distinct items, in the order the set yields them
ListOfSet(items, order) == [k \in 1..Len(Distinct(items)) |-> Distinct(items)[order[k]]]

\* all_skills: the category lists one after another, in the order of the dict
AllSkills(skills_by_category) ==
    Flatten([k \in 1..Len(SkillCategories) |-> skills_by_category[SkillCategories[k].category]])

ExtractSkills(text, sections, work, order) ==
    LET skills_by_category == SkillsByCategory(text, sections)
        all_skills == AllSkills(skills_by_category)
        linked == {skill \in SeqRange(all_skills) : LinkedRoles(skill, work) # <<>>}
    IN  [by_category |-> skills_by_category,
         all |-> ListOfSet(all_skills, order),
         linked_to_roles |-> [skill \in linked |-> LinkedRoles(skill, work)]]

(***************************************************************************)
(* ResumeParser._extract_education                                         *)
(***************************************************************************)
DegreeWords == << <<"B", "a", "c", "h", "e", "l", "o", "r">>, <<"M", "a", "s", "t", "e", "r">>,
        <<"P", "h", "D">>, <<"D", "o", "c", "t", "o", "r", "a", "t", "e">>, <<"A", "s", "s", "o",
        "c", "i", "a", "t", "e">> >>

HonorKeywords == << <<"h", "o", "n", "o", "r", "s">>, <<"s", "u", "m", "m", "a">>, <<"m", "a",
        "g", "n", "a">>, <<"c", "u", "m", " ", "l", "a", "u", "d", "e">>, <<"d", "e", "a", "n",
        "'", "s", " ", "l", "i", "s", "t">>, <<"s", "c", "h", "o", "l", "a", "r", "s", "h", "i",
        "p">> >>

NotPipe(c) == c # "|"
IsLetterOrDot(c) == IsLetter(c) \/ c = "."

\* \s+([^|]+) at index i: a space, then at least one more character that is not a pipe
SpaceThenField(s, i) == i + 1 <= Len(s) /\ IsSpace(s[i]) /\ s[i + 1] # "|"

\* (Bachelor|...).*?(?:in|of)\s+([^|]+) at index i, ignoring case: <<group 0>> or <<>>
DegreeWordAt(s, i) ==
    LET words == {k \in 1..Len(DegreeWords) : MatchAtIgnoreCase(s, i, DegreeWords[k])}
        after == i + Len(DegreeWords[SetMin(words)])
        joins == {j \in after..Len(s) :
                     /\ \A m \in after..(j - 1) : s[m] # "\n"
                     /\ MatchAtIgnoreCase(s, j, <<"i", "n">>) \/ MatchAtIgnoreCase(s, j, <<"o",
                             "f">>)
                     /\ SpaceThenField(s, j + 2)}
    IN  IF words # {} /\ joins # {}
        THEN <<SubSeq(s, i, RunEnd(s, SetMin(joins) + 3, NotPipe))>>
        ELSE <<>>

\* ([A-Z\.]+)\s+in\s+([^|]+) at index i, ignoring case: <<group 0>> or <<>>
DegreeAbbreviationAt(s, i) ==
    LET w == RunEnd(s, i, IsLetterOrDot)
        sp == RunEnd(s, w + 1, IsSpace)
    IN  IF w >= i /\ sp >= w + 1 /\ MatchAtIgnoreCase(s, sp + 1, <<"i",
            "n">>) /\ SpaceThenField(s, sp + 3)
        THEN <<SubSeq(s, i, RunEnd(s, sp + 4, NotPipe))>>
        ELSE <<>>

\* \|\s*([^|]+) at index i: <<group 1>> or <<>>
InstitutionAt(s, i) ==
    LET sp == RunEnd(s, i + 1, IsSpace)
    IN  IF s[i] = "|" /\ i + 1 <= Len(s) /\ s[i + 1] # "|"
        THEN IF sp + 1 <= Len(s) /\ s[sp + 1] # "|"
             THEN <<SubSeq(s, sp + 1, RunEnd(s, sp + 1, NotPipe))>>
             ELSE <<SubSeq(s, sp, sp)>>
        ELSE <<>>

\* GPA[:\s]+(\d+\.\d+) at index i, ignoring case: <<integer digits, fraction digits>> or <<>>
GpaAt(s, i) ==
    LET sep == RunEnd(s, i + 3, IsColonOrSpace)
        int == RunEnd(s, sep + 1, IsDigit)
        frac == RunEnd(s, int + 2, IsDigit)
    IN  IF /\ MatchAtIgnoreCase(s, i, <<"G", "P", "A">>)
           /\ sep >= i + 3
           /\ int >= sep + 1
           /\ int + 1 <= Len(s) /\ s[int + 1] = "."
           /\ frac >= int + 2
        THEN <<SubSeq(s, sep + 1, int), SubSeq(s, int + 2, frac)>>
        ELSE <<>>

\* str() of a natural number
RECURSIVE IntStr(_)
IntStr(n) ==
    LET digit == SubSeq(<<"0", "1", "2", "3", "4", "5", "6", "7", "8", "9">>, (n % 10) + 1,
            (n % 10) + 1)
    IN  IF n < 10 THEN digit ELSE IntStr(n \div 10) \o digit

\* str(float(int.frac)) of a decimal with few digits: no leading zeros, no
\* trailing zeros but the one after the point
FloatStr(int, frac) ==
    LET keep == {k \in 1..Len(frac) : DigitValue(frac[k]) # 0}
        last == IF keep = {} THEN 1 ELSE SetMax(keep)
    IN  IntStr(ParseInt(int)) \o <<".">> \o Flatten([k \in 1..last |-> IntStr(DigitValue(frac[k]))])

RECURSIVE Pow10(_)
Pow10(n) == IF n = 0 THEN 1 ELSE 10 * Pow10(n - 1)

\* IsHighGpa with > for >=: the boundary 3.5 is not high
IsHighGpaStrict(int, frac) == 10 * ParseInt(int \o frac) > 35 * Pow10(Len(frac))

\* float(int.frac) >= 3.5
IsHighGpa(int, frac) == 10 * ParseInt(int \o frac) >= 35 * Pow10(Len(frac))

\* DefaultEducation with is_standout set
DefaultEducationStandout ==
    [degree |-> EmptyStr, institution |-> EmptyStr, graduation_date |-> EmptyStr, gpa |-> EmptyStr,
     is_standout |-> TRUE, standout_reasons |-> <<>>]

\* the education dict as _extract_education first makes it
DefaultEducation ==
    [degree |-> EmptyStr, institution |-> EmptyStr, graduation_date |-> EmptyStr, gpa |-> EmptyStr,
     is_standout |-> FALSE, standout_reasons |-> <<>>]

ExtractEducation(text, sections) ==
    IF "education" \notin DOMAIN sections THEN DefaultEducation
    ELSE LET edu_text == SectionText(text, sections, "education")
             degree1 == Search(edu_text, DegreeWordAt)
             degree2 == Search(edu_text, DegreeAbbreviationAt)
             inst_match == Search(edu_text, InstitutionAt)
             gpa_match == Search(edu_text, GpaAt)
             high == gpa_match # <<>> /\ IsHighGpa(gpa_match[1], gpa_match[2])
             honors == ContainsAny(Lower(edu_text), HonorKeywords)
         IN  [degree |-> IF degree1 # <<>> THEN degree1[1] ELSE IF degree2 # <<>> THEN degree2[1] ELSE EmptyStr,
              institution |-> IF inst_match # <<>> THEN Strip(inst_match[1]) ELSE EmptyStr,
              graduation_date |-> EmptyStr,
              gpa |-> IF gpa_match # <<>> THEN FloatStr(gpa_match[1], gpa_match[2]) ELSE EmptyStr,
              is_standout |-> high \/ honors,
              standout_reasons |->
                  (IF high THEN << <<"H", "i", "g", "h", " ", "G", "P", "A", ":",
                          " ">> \o FloatStr(gpa_match[1], gpa_match[2]) >> ELSE <<>>)
                  \o (IF honors THEN << <<"A", "c", "a", "d", "e", "m", "i", "c", " ", "h", "o",
                          "n", "o", "r", "s", "/", "a", "w", "a", "r", "d", "s">> >> ELSE <<>>)]

(***************************************************************************)
(* ResumeParser._extract_achievements                                      *)
(***************************************************************************)
AwardWords == << <<"a", "w", "a", "r", "d">>, <<"p", "r", "i", "z", "e">>, <<"h", "o", "n", "o",
        "r">> >>

RecognitionWords == << <<"a", "w", "a", "r", "d">>, <<"p", "r", "i", "z", "e">>, <<"r", "e", "c",
        "o", "g", "n", "i", "t", "i", "o", "n">>, <<"o", "u", "t", "s", "t", "a", "n", "d", "i",
        "n", "g">>, <<"e", "x", "c", "e", "l", "l", "e", "n", "c", "e">> >>

\* the entries of the achievements section: its bullet lines after the header line
SectionAchievements(text, sections) ==
    IF "achievements" \notin DOMAIN sections THEN <<>>
    ELSE LET lines == Split(SectionText(text, sections, "achievements"), "\n")
             stripped == [k \in 1..(Len(lines) - 1) |-> Strip(lines[k + 1])]
             idx == SelectIdx(Len(stripped), LAMBDA k : IsBulletLine(stripped[k]))
             Bullet(k) == RemoveBulletMarker(stripped[idx[k]])
         IN  [k \in 1..Len(idx) |->
                 [text |-> Bullet(k),
                  type |-> IF ContainsAny(Lower(Bullet(k)), AwardWords) THEN "award" ELSE "achievement"]]

\* the work_recognition entries of one role, in accomplishment order
RoleRecognitions(role) ==
    LET idx == SelectIdx(Len(role.accomplishments),
                         LAMBDA k : ContainsAny(Lower(role.accomplishments[k].text), RecognitionWords))
    IN  [k \in 1..Len(idx) |->
            [text |-> role.accomplishments[idx[k]].text, type |-> "work_recognition",
             role |-> role.role_title, company |-> role.company]]

\* ExtractAchievements with the two loops in the other order
ExtractAchievementsWorkFirst(text, sections, work) ==
    Flatten([k \in 1..Len(work) |-> RoleRecognitions(work[k])]) \o SectionAchievements(text, sections)

ExtractAchievements(text, sections, work) ==
    SectionAchievements(text, sections) \o Flatten([k \in 1..Len(work) |-> RoleRecognitions(work[k])])

(***************************************************************************)
(* ResumeParser._generate_embeddings                                       *)
(***************************************************************************)
\* the vector the sentence encoder gives one text: the encoder is a function of
\* the text alone, and no more is known of it
EncodeText(t) == [vector_of |-> t]

\* self.embedder.encode(texts, convert_to_numpy=True).tolist(): one vector per text, in order
Encode(texts) == [k \in 1..Len(texts) |-> EncodeText(texts[k])]

\* role_embedding_texts of a role
RoleEmbeddingTexts(role) ==
    [k \in 1..Len(role.accomplishments) |->
        role.role_title \o <<" ", "a", "t", " ">> \o role.company \o <<":",
                " ">> \o role.accomplishments[k].text]

\* RoleEmbeddingBlock that stores the accomplishment texts, not the texts it encoded
RoleEmbeddingBlockOfRawTexts(role) ==
    [role_title |-> role.role_title, company |-> role.company,
     embeddings |-> Encode(RoleEmbeddingTexts(role)),
     texts |-> [k \in 1..Len(role.accomplishments) |-> role.accomplishments[k].text]]

\* the block of a role whose batch was encoded
RoleEmbeddingBlock(role) ==
    [role_title |-> role.role_title, company |-> role.company,
     embeddings |-> Encode(RoleEmbeddingTexts(role)), texts |-> RoleEmbeddingTexts(role)]

\* the achievements entry: a list, empty until the batch is encoded, then a dict
AchievementEmbeddings(achievements) ==
    [embeddings |-> Encode([k \in 1..Len(achievements) |-> achievements[k].text]),
     texts |-> [k \in 1..Len(achievements) |-> achievements[k].text]]

\* GenerateEmbeddings without the test of role_embedding_texts: a block for
\* every role whose encode call did not raise
GenerateEmbeddingsOfEveryRole(work, achievements, failed) ==
    LET encoded == SelectIdx(Len(work), LAMBDA k : k \notin failed)
    IN  [work_experience |-> [k \in 1..Len(encoded) |-> RoleEmbeddingBlock(work[encoded[k]])],
         achievements |-> IF achievements # <<>> /\ 0 \notin failed
                          THEN AchievementEmbeddings(achievements)
                          ELSE <<>>]

\* GenerateEmbeddings that gives up at the first encode call that raises
GenerateEmbeddingsUntilRaise(work, achievements, failed) ==
    LET roles == failed \ {0}
        encoded == SelectIdx(Len(work),
                LAMBDA k : work[k].accomplishments # <<>> /\ \A f \in roles : k < f)
    IN  [work_experience |-> [k \in 1..Len(encoded) |-> RoleEmbeddingBlock(work[encoded[k]])],
         achievements |-> IF achievements # <<>> /\ failed = {}
                          THEN AchievementEmbeddings(achievements)
                          ELSE <<>>]

\* failed: the batches whose encode call raises, the role batches by their index
\* in work_experience and the achievements batch as 0
GenerateEmbeddings(work, achievements, failed) ==
    LET encoded == SelectIdx(Len(work),
            LAMBDA k : work[k].accomplishments # <<>> /\ k \notin failed)
    IN  [work_experience |-> [k \in 1..Len(encoded) |-> RoleEmbeddingBlock(work[encoded[k]])],
         achievements |-> IF achievements # <<>> /\ 0 \notin failed
                          THEN AchievementEmbeddings(achievements)
                          ELSE <<>>]

\* the encode calls _generate_embeddings makes: one per role with accomplishments
\* and one for the achievements, if any
EncodeCalls(work, achievements) ==
    {k \in 1..Len(work) : work[k].accomplishments # <<>>} \cup (IF achievements # <<>> THEN {0} ELSE {})

(***************************************************************************)
(* ResumeParser._extract_headline                                          *)
(***************************************************************************)
RoleWords == <<
    <<"s", "o", "f", "t", "w", "a", "r", "e">>, <<"e", "n", "g", "i", "n", "e", "e", "r">>,
            <<"d", "e", "v", "e", "l", "o", "p", "e", "r">>, <<"m", "a", "n", "a", "g", "e",
            "r">>, <<"d", "i", "r", "e", "c", "t", "o", "r">>, <<"l", "e", "a", "d">>, <<"s",
            "e", "n", "i", "o", "r">>,
    <<"j", "u", "n", "i", "o", "r">>, <<"i", "n", "t", "e", "r", "n">>, <<"a", "s", "s", "i",
            "s", "t", "a", "n", "t">>, <<"a", "n", "a", "l", "y", "s", "t">>, <<"p", "r", "o",
            "d", "u", "c", "t">>, <<"p", "r", "o", "j", "e", "c", "t">>, <<"d", "a", "t", "a">>,
            <<"s", "y", "s", "t", "e", "m", "s">> >>

\* the patterns with an optional character: full.?stack, front.?end, back.?end
RoleWordPairs == << << <<"f", "u", "l", "l">>, <<"s", "t", "a", "c", "k">> >>, << <<"f", "r",
        "o", "n", "t">>, <<"e", "n", "d">> >>, << <<"b", "a", "c", "k">>, <<"e", "n",
        "d">> >> >>

\* any(re.search(pattern, line, re.IGNORECASE) for pattern in self.role_patterns)
HasRoleWord(line) ==
    \/ ContainsAny(Lower(line), RoleWords)
    \/ \E k \in 1..Len(RoleWordPairs), i \in 1..Len(line) :
          LET after == i + Len(RoleWordPairs[k][1])
          IN  /\ MatchAtIgnoreCase(line, i, RoleWordPairs[k][1])
              /\ \/ MatchAtIgnoreCase(line, after, RoleWordPairs[k][2])
                 \/ after <= Len(line) /\ line[after] # "\n"
                       /\ MatchAtIgnoreCase(line, after + 1, RoleWordPairs[k][2])

\* the most lines the headline is read from
HeadlineLines == 5
\* a title is shorter than this
TitleLength == 100

ExtractHeadline(text, sections) ==
    LET lines == Split(text, "\n")
        first_section_line == IF DOMAIN sections = {} THEN Len(lines)
                              ELSE SetMin({sections[k] : k \in DOMAIN sections})
        top == [k \in 1..SetMin({HeadlineLines, first_section_line}) |-> Strip(lines[k])]
        idx == SelectIdx(Len(top), LAMBDA k : top[k] # <<>>)
        headline_lines == [k \in 1..Len(idx) |-> top[idx[k]]]
        rest == Tail(headline_lines)
        with_role == SelectIdx(Len(rest), LAMBDA k : HasRoleWord(rest[k]))
        short == SelectIdx(Len(rest), LAMBDA k : Len(rest[k]) < TitleLength)
    IN  [name |-> IF headline_lines # <<>> THEN headline_lines[1] ELSE EmptyStr,
         title |-> IF headline_lines = <<>> THEN EmptyStr
                   ELSE IF with_role # <<>> THEN rest[with_role[1]]
                   ELSE IF short # <<>> THEN rest[short[1]]
                   ELSE EmptyStr,
         contact |-> IF Len(headline_lines) > 2 THEN Join(SubSeq(headline_lines, 3,
                 Len(headline_lines)), <<" ">>) ELSE EmptyStr]

(***************************************************************************)
(* ResumeParser.parse: the state of one call                               *)
(***************************************************************************)
VARIABLES
    resume_text,      \* the argument of parse
    pc,               \* the statement of parse that runs next
    sections, headline, work_experience, skills, education, achievements, last_role, embeddings,
    encode_raised     \* the encode calls of _generate_embeddings that raised

parse_vars == <<resume_text, pc, sections, headline, work_experience, skills, education,
                achievements, last_role, embeddings, encode_raised>>

\* the state of the vector service
VARIABLES
    embeddings_input,   \* the argument work_experience_embeddings
    similarity,         \* the cosine similarity of the query with each vector of the input
    call,               \* the last call: its name, top_k and threshold
    result,             \* how the last call ended, and the value it returned
    clustering          \* how the call of cluster_experiences_by_theme ended, and its value

search_vars == <<embeddings_input, similarity, call, result, clustering>>

\* the state of the process that imports the services package
VARIABLES
    models,     \* the SentenceTransformer instances constructed so far, each by the class that made it
    parser,     \* the fields of the singleton resume_parser
    matcher,    \* the fields of the singleton vector_service
    threads,    \* the invocation each thread runs: its arguments, its locals and its result
    calls       \* the number of invocations started

process_vars == <<models, parser, matcher, threads, calls>>

vars == <<parse_vars, search_vars, process_vars>>

\* last_role = work_experience[0] if work_experience else None: a list of the
\* one role, the empty list for None
LastRole(work) == IF work # <<>> THEN <<work[1]>> ELSE <<>>

\* a local that no statement has assigned yet
Unset == "unset"

ParseInit ==
    /\ resume_text \in ResumeTexts
    /\ pc = "identify_sections"
    /\ sections = Unset /\ headline = Unset /\ work_experience = Unset /\ skills = Unset
    /\ education = Unset /\ achievements = Unset /\ last_role = Unset /\ embeddings = Unset
    /\ encode_raised = {}

ParseIdentifySections ==
    /\ pc = "identify_sections"
    /\ sections' = IdentifySections(resume_text)
    /\ pc' = "extract_headline"
    /\ UNCHANGED <<resume_text, headline, work_experience, skills, education, achievements,
            last_role, embeddings, encode_raised, search_vars, process_vars>>

ParseExtractHeadline ==
    /\ pc = "extract_headline"
    /\ headline' = ExtractHeadline(resume_text, sections)
    /\ pc' = "extract_work_experience"
    /\ UNCHANGED <<resume_text, sections, work_experience, skills, education, achievements,
            last_role, embeddings, encode_raised, search_vars, process_vars>>

ParseExtractWorkExperience ==
    /\ pc = "extract_work_experience"
    /\ work_experience' = ExtractWorkExperience(resume_text, sections)
    /\ pc' = "extract_skills"
    /\ UNCHANGED <<resume_text, sections, headline, skills, education, achievements, last_role,
            embeddings, encode_raised, search_vars, process_vars>>

ParseExtractSkills ==
    /\ pc = "extract_skills"
    /\ \E order \in SetOrders(Len(Distinct(AllSkills(SkillsByCategory(resume_text, sections))))) :
          skills' = ExtractSkills(resume_text, sections, work_experience, order)
    /\ pc' = "extract_education"
    /\ UNCHANGED <<resume_text, sections, headline, work_experience, education, achievements,
            last_role, embeddings, encode_raised, search_vars, process_vars>>

ParseExtractEducation ==
    /\ pc = "extract_education"
    /\ education' = ExtractEducation(resume_text, sections)
    /\ pc' = "extract_achievements"
    /\ UNCHANGED <<resume_text, sections, headline, work_experience, skills, achievements,
            last_role, embeddings, encode_raised, search_vars, process_vars>>

ParseExtractAchievements ==
    /\ pc = "extract_achievements"
    /\ achievements' = ExtractAchievements(resume_text, sections, work_experience)
    /\ pc' = "generate_embeddings"
    /\ UNCHANGED <<resume_text, sections, headline, work_experience, skills, education,
            last_role, embeddings, encode_raised, search_vars, process_vars>>

\* ParseGenerateEmbeddings that removes from work_experience the roles whose
\* batch raised
ParseGenerateEmbeddingsDroppingRoles ==
    /\ pc = "generate_embeddings"
    /\ \E failed \in SUBSET EncodeCalls(work_experience, achievements) :
          /\ embeddings' = GenerateEmbeddings(work_experience, achievements, failed)
          /\ encode_raised' = failed
          /\ work_experience' = Pick(work_experience, SelectIdx(Len(work_experience), LAMBDA k : k \notin failed))
    /\ last_role' = LastRole(work_experience)
    /\ pc' = "return"
    /\ UNCHANGED <<resume_text, sections, headline, skills, education, achievements, search_vars,
            process_vars>>

\* last_role, then _generate_embeddings: any of the encode calls may raise; the
\* except clauses catch it
ParseGenerateEmbeddings ==
    /\ pc = "generate_embeddings"
    /\ \E failed \in SUBSET EncodeCalls(work_experience, achievements) :
          /\ embeddings' = GenerateEmbeddings(work_experience, achievements, failed)
          /\ encode_raised' = failed
    /\ last_role' = LastRole(work_experience)
    /\ pc' = "return"
    /\ UNCHANGED <<resume_text, sections, headline, work_experience, skills, education,
            achievements, search_vars, process_vars>>

(***************************************************************************)
(* VectorService.find_similar_experiences                                  *)
(*                                                                         *)
(* A similarity is a number of hundredths: 50 is 0.5.  The cosine          *)
(* similarity of the encoded query with a stored vector is an input: the   *)
(* function similarity gives it for every vector of the embeddings input.  *)
(***************************************************************************)
\* the most role blocks of an embeddings input
MaxBlocks == 2
\* the most vectors of an embeddings input, all its blocks together
MaxVectors == 3
\* the largest top_k asked for
MaxTopK == 3

\* the similarities a vector can have with the query
Similarities == {20, 30, 40, 50}

\* the default threshold of find_similar_experiences, of match_skills_to_experiences,
\* and the threshold find_story_candidates passes
DefaultThreshold == 50
SkillThreshold == 40
StoryThreshold == 30
\* the top_k match_skills_to_experiences passes
SkillTopK == 5

Thresholds == {DefaultThreshold, SkillThreshold, StoryThreshold}
TopKs == (-1)..MaxTopK

\* the block of role r with n accomplishments; vector <<r, j>> stands for the
\* embedding of its j-th text
InputBlock(r, n) ==
    [role_title |-> <<"role", r>>, company |-> <<"company", r>>,
     embeddings |-> [j \in 1..n |-> <<r, j>>], texts |-> [j \in 1..n |-> <<"text", r, j>>]]

\* the block sizes of the embeddings inputs: at most MaxBlocks blocks, at most
\* MaxVectors vectors in all; a block may hold no vector
RECURSIVE SumSeq(_)
SumSeq(s) == IF s = <<>> THEN 0 ELSE s[1] + SumSeq(Tail(s))

InputShapes ==
    {shape \in UNION {[1..m -> 0..MaxVectors] : m \in 0..MaxBlocks} : SumSeq(shape) <= MaxVectors}

InputOfShape(shape) == [r \in 1..Len(shape) |-> InputBlock(r, shape[r])]

VectorsOf(blocks) == UNION {SeqRange(blocks[r].embeddings) : r \in 1..Len(blocks)}

\* xs[:k], also for a negative k
Truncate(xs, k) == IF k >= 0 THEN SubSeq(xs, 1, SetMin({k, Len(xs)})) ELSE SubSeq(xs, 1, Len(xs) + k)

\* np.argsort(similarities) without the [::-1]: the indexes by non-decreasing similarity
ArgsortAscending(sims) ==
    {order \in SetOrders(Len(sims)) : \A a \in 1..(Len(sims) - 1) : sims[order[a]] <= sims[order[a + 1]]}

\* np.argsort(similarities)[::-1]: the indexes by non-increasing similarity.
\* argsort's sort is not stable, so equal similarities come in any order.
ArgsortDescending(sims) ==
    {order \in SetOrders(Len(sims)) : \A a \in 1..(Len(sims) - 1) : sims[order[a]] >= sims[order[a + 1]]}

\* RoleResults without the test of line 55: every one of the top_k is kept
RoleResultsUnfiltered(role_data, sim, order, top_k, threshold) ==
    LET top_indices == Truncate(order, top_k)
    IN  [a \in 1..Len(top_indices) |->
            [role_title |-> role_data.role_title, company |-> role_data.company,
             accomplishment |-> role_data.texts[top_indices[a]],
             similarity |-> sim[role_data.embeddings[top_indices[a]]],
             match_type |-> "work_experience"]]

\* the results one role adds: its top_k by similarity that reach the threshold
RoleResults(role_data, sim, order, top_k, threshold) ==
    LET top_indices == Truncate(order, top_k)
        kept == SelectIdx(Len(top_indices), LAMBDA a : sim[role_data.embeddings[top_indices[a]]] >= threshold)
    IN  [a \in 1..Len(kept) |->
            [role_title |-> role_data.role_title, company |-> role_data.company,
             accomplishment |-> role_data.texts[top_indices[kept[a]]],
             similarity |-> sim[role_data.embeddings[top_indices[kept[a]]]],
             match_type |-> "work_experience"]]

\* results.sort(key=similarity, reverse=True) adds x to a list sorted so far (a stable sort)
InsertBySimilarity(sorted, x) ==
    LET less == {k \in 1..Len(sorted) : sorted[k].similarity < x.similarity}
        at == IF less = {} THEN Len(sorted) + 1 ELSE SetMin(less)
    IN  SubSeq(sorted, 1, at - 1) \o <<x>> \o SubSeq(sorted, at, Len(sorted))

\* SortBySimilarity without the sort: the results in the order the roles gave them
SortBySimilarityNot(results) == results

RECURSIVE SortBySimilarity(_)
SortBySimilarity(results) ==
    IF results = <<>> THEN <<>>
    ELSE InsertBySimilarity(SortBySimilarity(SubSeq(results, 1, Len(results) - 1)), results[Len(results)])

\* cosine_similarity raises ValueError for a role whose embeddings list is empty:
\* np.array([]) is not a matrix
RaisesOnBlocks(blocks) == \E r \in 1..Len(blocks) : blocks[r].embeddings = <<>>

\* the value find_similar_experiences returns, when it returns; orders[r] is the
\* argsort of role r
FindSimilarExperiences(blocks, sim, orders, top_k, threshold) ==
    IF blocks = <<>> THEN <<>>
    ELSE Truncate(SortBySimilarity(Flatten([r \in 1..Len(blocks) |->
                 RoleResults(blocks[r], sim, orders[r], top_k, threshold)])), top_k)

\* the similarities of the vectors of one role, in order
RoleSimilarities(role_data, sim) == [j \in 1..Len(role_data.embeddings) |-> sim[role_data.embeddings[j]]]

\* the argsorts of the first n roles, one per role
RECURSIVE AllOrders(_, _, _)
AllOrders(blocks, sim, n) ==
    IF n = 0 THEN {<<>>}
    ELSE {Append(orders, order) : orders \in AllOrders(blocks, sim, n - 1),
                                  order \in ArgsortDescending(RoleSimilarities(blocks[n], sim))}

(***************************************************************************)
(* VectorService.cluster_experiences_by_theme                              *)
(***************************************************************************)
\* the bounds of the clustering inputs: the blocks of an input, the vectors of a
\* block, the n_clusters a caller gives, and the largest pool of which every
\* labelling is taken
MaxClusterBlocks == 3
MaxBlockVectors == 4
MaxNClusters == 3
MaxLabelled == 4

\* the cap of the adaptive number of clusters
AdaptiveCap == 5

\* the least n_clusters that runs KMeans
MinClusters == 2

\* n_clusters: Optional[int], the empty list for None and a list of the one number
NClustersArgs == {<<>>} \cup {<<n>> : n \in 0..MaxNClusters}

ClusterShapes == UNION {[1..m -> 0..MaxBlockVectors] : m \in 0..MaxClusterBlocks}

\* all_metadata: one entry per embedding of every role, in pooled order
AllMetadata(blocks) ==
    Flatten([r \in 1..Len(blocks) |->
                [i \in 1..Len(blocks[r].embeddings) |->
                    [role_title |-> blocks[r].role_title, company |-> blocks[r].company,
                     text |-> blocks[r].texts[i]]]])

\* min(5, len(all_embeddings) // 2) without the cap
AdaptiveClustersUncapped(n) == n \div 2

\* min(5, len(all_embeddings) // 2)
AdaptiveClusters(n) == SetMin({AdaptiveCap, n \div 2})

\* n_clusters after the test for None, for a pool of n embeddings
NClustersOf(n_clusters, n) == IF n_clusters = <<>> THEN AdaptiveClusters(n) ELSE n_clusters[1]

\* f"cluster_{label}"
ClusterKey(label) == <<"c", "l", "u", "s", "t", "e", "r", "_">> \o IntStr(label)

\* kmeans.fit_predict: one label of 0..k-1 per embedding.  The labels depend on
\* the vectors, of which nothing is known, so any labelling can come: all of
\* them for a pool of at most MaxLabelled, and for a larger pool the labellings
\* that give runs of a members to the clusters in turn, from cluster b on.
KMeansLabels(n, k) ==
    IF n <= MaxLabelled THEN [1..n -> 0..(k - 1)]
    ELSE {[i \in 1..n |-> (((i - 1) \div a) + b) % k] : a \in 1..k, b \in 0..(k - 1)}

\* the loop of lines 112-117 with clusters[cluster_key] = [all_metadata[idx]] for
\* the append: each cluster keeps its last member only
GroupByLabelOverwriting(all_metadata, labels) ==
    [key \in {ClusterKey(labels[i]) : i \in 1..Len(labels)} |->
        <<all_metadata[SetMax({i \in 1..Len(labels) : ClusterKey(labels[i]) = key})]>>]

\* the loop of lines 112-117: the members of each label, in pooled order
GroupByLabel(all_metadata, labels) ==
    [key \in {ClusterKey(labels[i]) : i \in 1..Len(labels)} |->
        [k \in 1..Cardinality({i \in 1..Len(labels) : ClusterKey(labels[i]) = key}) |->
            all_metadata[Ascending({i \in 1..Len(labels) : ClusterKey(labels[i]) = key})[k]]]]

\* before any call of cluster_experiences_by_theme; kmeans is the list of the
\* n_clusters of the KMeans runs of the call
NoClustering == [outcome |-> "none", value |-> EmptyDict, kmeans |-> <<>>]

\* the ways the call can end once all_metadata is pooled and n_clusters is set.
\* KMeans raises ValueError for fewer samples than clusters.
ClusterPooled(all_metadata, n_clusters) ==
    IF all_metadata = <<>>
    THEN {[outcome |-> "returned", value |-> EmptyDict, kmeans |-> <<>>]}
    ELSE IF n_clusters < MinClusters
    THEN {[outcome |-> "returned", value |-> Put(EmptyDict, ClusterKey(0), all_metadata),
            kmeans |-> <<>>]}
    ELSE IF Len(all_metadata) < n_clusters
    THEN {[outcome |-> "raised", value |-> EmptyDict, kmeans |-> <<n_clusters>>]}
    ELSE {[outcome |-> "returned", value |-> GroupByLabel(all_metadata, labels),
            kmeans |-> <<n_clusters>>] :
              labels \in KMeansLabels(Len(all_metadata), n_clusters)}

\* the ways one call of cluster_experiences_by_theme can end
ClusterExperiencesByTheme(input, n_clusters) ==
    IF input.is_none \/ input.blocks = <<>>
    THEN {[outcome |-> "returned", value |-> EmptyDict, kmeans |-> <<>>]}
    ELSE ClusterPooled(AllMetadata(input.blocks),
                       NClustersOf(n_clusters, Len(AllMetadata(input.blocks))))

(***************************************************************************)
(* VectorService: the state of one call.  The service keeps nothing from   *)
(* one call to the next, so a behaviour is one call on one input.          *)
(***************************************************************************)
\* work_experience_embeddings = None
None == [is_none |-> TRUE, blocks |-> <<>>]

Given(blocks) == [is_none |-> FALSE, blocks |-> blocks]

\* before any call
NoCall == [name |-> "none", top_k |-> 0, threshold |-> 0]
NoResult == [outcome |-> "none", value |-> <<>>]

SearchInit ==
    /\ embeddings_input \in {None} \cup {Given(InputOfShape(shape)) : shape \in InputShapes}
    /\ similarity \in [VectorsOf(embeddings_input.blocks) -> Similarities]
    /\ call = NoCall
    /\ result = NoResult
    /\ clustering = NoClustering

\* the ways one call of find_similar_experiences can end
FindSimilarOutcomes(input, sim, top_k, threshold) ==
    IF input.is_none \/ input.blocks = <<>>
    THEN {[outcome |-> "returned", value |-> <<>>]}
    ELSE IF RaisesOnBlocks(input.blocks)
    THEN {[outcome |-> "raised", value |-> <<>>]}
    ELSE {[outcome |-> "returned",
           value |-> FindSimilarExperiences(input.blocks, sim, orders, top_k, threshold)] :
              orders \in AllOrders(input.blocks, sim, Len(input.blocks))}

SearchFindSimilarExperiences ==
    \E top_k \in TopKs, threshold \in Thresholds :
        /\ call = NoCall
        /\ call' = [name |-> "find_similar_experiences", top_k |-> top_k, threshold |-> threshold]
        /\ result' \in FindSimilarOutcomes(embeddings_input, similarity, top_k, threshold)
        /\ UNCHANGED <<embeddings_input, similarity, clustering, parse_vars, process_vars>>

\* match_skills_to_experiences: top_k=5, the threshold the caller gives (0.4 by default)
SearchMatchSkillsToExperiences ==
    \E threshold \in Thresholds :
        /\ call = NoCall
        /\ call' = [name |-> "match_skills_to_experiences", top_k |-> SkillTopK, threshold |-> threshold]
        /\ result' \in FindSimilarOutcomes(embeddings_input, similarity, SkillTopK, threshold)
        /\ UNCHANGED <<embeddings_input, similarity, clustering, parse_vars, process_vars>>

\* find_story_candidates: the top_k the caller gives, threshold=0.3
SearchFindStoryCandidates ==
    \E top_k \in TopKs :
        /\ call = NoCall
        /\ call' = [name |-> "find_story_candidates", top_k |-> top_k, threshold |-> StoryThreshold]
        /\ result' \in FindSimilarOutcomes(embeddings_input, similarity, top_k, StoryThreshold)
        /\ UNCHANGED <<embeddings_input, similarity, clustering, parse_vars, process_vars>>

\* cluster_experiences_by_theme, with n_clusters None or given
SearchClusterExperiencesByTheme ==
    \E n_clusters \in NClustersArgs :
        /\ call = NoCall
        /\ call' = [name |-> "cluster_experiences_by_theme", n_clusters |-> n_clusters]
        /\ clustering' \in ClusterExperiencesByTheme(embeddings_input, n_clusters)
        /\ UNCHANGED <<embeddings_input, similarity, result, parse_vars, process_vars>>

\* cluster_experiences_by_theme(work_experience_embeddings): n_clusters is
\* left at its default None
SearchClusterAdaptively ==
    /\ call = NoCall
    /\ call' = [name |-> "cluster_experiences_by_theme", n_clusters |-> <<>>]
    /\ clustering' \in ClusterExperiencesByTheme(embeddings_input, <<>>)
    /\ UNCHANGED <<embeddings_input, similarity, result, parse_vars, process_vars>>

\* the embeddings inputs of the clustering: up to MaxClusterBlocks blocks of up
\* to MaxBlockVectors vectors; the similarities play no part
ClusterInit ==
    /\ embeddings_input \in {None} \cup {Given(InputOfShape(shape)) : shape \in ClusterShapes}
    /\ similarity = <<>>
    /\ call = NoCall
    /\ result = NoResult
    /\ clustering = NoClustering

(***************************************************************************)
(* The process: the import of the services package makes the singletons    *)
(* resume_parser and vector_service; threads then invoke their methods.    *)
(***************************************************************************)
\* the threads of the process: each is started for one invocation
MaxThreads == 2

Threads == 1..MaxThreads

\* top_k of find_similar_experiences when the caller gives none
DefaultTopK == 3

\* the resume texts and the embeddings inputs the invocations are given
ProcessTexts == {<<"Q", "A", " ", "I", "n", "t", "e", "r", "n", " ", "|", " ", "G", "l", "o",
        "b", "e", "x", " ", "|", " ", "L", "A", " ", "|", " ", "2", "0", "1", "9", "-", "2", "0",
        "2", "1", "\n", "-", " ", "W", "r", "o", "t", "e", " ", "P", "y", "t", "h", "o", "n",
        " ", "t", "e", "s", "t", "s">>, <<"S", "K", "I", "L", "L", "S", "\n", "T", "o", "o", "l",
        "s", ":", " ", "G", "i", "t", ";", " ", "G", "o">>}

ProcessBlocks == InputOfShape(<<1, 2>>)

ProcessInputs == {None, Given(ProcessBlocks)}

\* the cosine similarity of the query with the vectors of ProcessBlocks
ProcessSimilarity == [v \in VectorsOf(ProcessBlocks) |-> IF v[1] = 1 THEN 50 ELSE 60]

\* SentenceTransformer('all-MiniLM-L6-v2') in the __init__ of class owner: the
\* instances so far and the new one; an instance is known by its place in the list
Construct(instances, owner) == Append(instances, owner)

\* a singleton that the import has not made yet; embedder is the instance in self.embedder
NoSingleton == [embedder |-> 0]

\* a thread that is not started yet
Idle ==
    [op |-> "idle", pc |-> "idle", text |-> EmptyStr, input |-> None,
     sections |-> Unset, headline |-> Unset, work_experience |-> Unset, skills |-> Unset,
     education |-> Unset, achievements |-> Unset, last_role |-> Unset, embeddings |-> Unset,
     encoder |-> 0, value |-> Unset]

\* ThreadSet on a name that the invocations of one method share, as an
\* attribute of the singleton would be
ThreadSetShared(ths, t, local, v) ==
    [u \in DOMAIN ths |-> IF ths[u].op = ths[t].op THEN [ths[u] EXCEPT ![local] = v] ELSE ths[u]]

\* an assignment to a local of the invocation of thread t
ThreadSet(ths, t, local, v) == [ths EXCEPT ![t][local] = v]

\* the invocation of thread t goes on to statement pc
Goto(ths, t, pc_) == [ths EXCEPT ![t].pc = pc_]

\* the dict parse returns, but for parsed_at, the reading of the clock
ParseResult(th) ==
    [headline |-> th.headline, last_role |-> th.last_role, work_experience |-> th.work_experience,
     skills |-> th.skills, education |-> th.education, achievements |-> th.achievements,
     embeddings |-> th.embeddings]

\* the dicts parse can return for a text when no other invocation runs
ParseAloneOf(text, sections_, work, achievements_) ==
    {[headline |-> ExtractHeadline(text, sections_), last_role |-> LastRole(work),
      work_experience |-> work, skills |-> ExtractSkills(text, sections_, work, order),
      education |-> ExtractEducation(text, sections_), achievements |-> achievements_,
      embeddings |-> GenerateEmbeddings(work, achievements_, failed)] :
        order \in SetOrders(Len(Distinct(AllSkills(SkillsByCategory(text, sections_))))),
        failed \in SUBSET EncodeCalls(work, achievements_)}

ParseAloneFrom(text, sections_, work) ==
    ParseAloneOf(text, sections_, work, ExtractAchievements(text, sections_, work))

ParseAlone(text) ==
    ParseAloneFrom(text, IdentifySections(text), ExtractWorkExperience(text, IdentifySections(text)))

\* from .resume_parser import resume_parser; from .vector_service import vector_service:
\* each module makes its singleton, and each __init__ constructs its embedder
ImportServices ==
    /\ parser = NoSingleton
    /\ models' = Construct(Construct(models, "ResumeParser"), "VectorService")
    /\ parser' = [embedder |-> Len(models) + 1]
    /\ matcher' = [embedder |-> Len(models) + 2]
    /\ UNCHANGED <<threads, calls, parse_vars, search_vars>>

\* the next thread is started for an invocation
CallParse(t) ==
    \E text \in ProcessTexts :
        /\ parser # NoSingleton /\ t = calls + 1
        /\ threads' = [threads EXCEPT ![t] = [Idle EXCEPT !.op = "parse", !.pc = "extract", !.text = text]]
        /\ calls' = calls + 1
        /\ UNCHANGED <<models, parser, matcher, parse_vars, search_vars>>

CallFindSimilarExperiences(t) ==
    \E input \in ProcessInputs :
        /\ matcher # NoSingleton /\ t = calls + 1
        /\ threads' = [threads EXCEPT ![t] = [Idle EXCEPT !.op = "find_similar_experiences", !.pc = "encode_query", !.input = input]]
        /\ calls' = calls + 1
        /\ UNCHANGED <<models, parser, matcher, parse_vars, search_vars>>

CallClusterExperiencesByTheme(t) ==
    \E input \in ProcessInputs :
        /\ matcher # NoSingleton /\ t = calls + 1
        /\ threads' = [threads EXCEPT ![t] = [Idle EXCEPT !.op = "cluster_experiences_by_theme", !.pc = "cluster", !.input = input]]
        /\ calls' = calls + 1
        /\ UNCHANGED <<models, parser, matcher, parse_vars, search_vars>>

\* what the statements of parse from _identify_sections to _extract_achievements
\* assign for a text; skills is the set of the values it can take, one for each
\* order list(set(...)) can give
ExtractionOf(text, sections_, work) ==
    [sections |-> sections_, headline |-> ExtractHeadline(text, sections_), work_experience |-> work,
     skills |-> {ExtractSkills(text, sections_, work, order) :
                    order \in SetOrders(Len(Distinct(AllSkills(SkillsByCategory(text, sections_)))))},
     education |-> ExtractEducation(text, sections_),
     achievements |-> ExtractAchievements(text, sections_, work)]

Extraction(text) ==
    ExtractionOf(text, IdentifySections(text), ExtractWorkExperience(text, IdentifySections(text)))

\* the locals of thread t after the extraction statements of parse
ThreadExtracted(ths, t, e, skills_) ==
    ThreadSet(ThreadSet(ThreadSet(ThreadSet(ThreadSet(ThreadSet(ths,
        t, "sections", e.sections),
        t, "headline", e.headline),
        t, "work_experience", e.work_experience),
        t, "skills", skills_),
        t, "education", e.education),
        t, "achievements", e.achievements)

\* the threads after thread t has run the extraction statements with outcome e
ThreadsExtracted(ths, t, e) ==
    {Goto(ThreadExtracted(ths, t, e, skills_), t, "generate_embeddings") : skills_ \in e.skills}

\* the statements of parse from _identify_sections to _extract_achievements, run
\* by thread t: they read the text, the locals and the patterns of the
\* singleton, and assign locals
ThreadExtract(t) ==
    /\ threads[t].pc = "extract"
    /\ threads' \in ThreadsExtracted(threads, t, Extraction(threads[t].text))
    /\ UNCHANGED <<models, parser, matcher, calls, parse_vars, search_vars>>

\* last_role and _generate_embeddings, whose encode calls go to self.embedder
ThreadGenerateEmbeddings(t) ==
    /\ threads[t].pc = "generate_embeddings"
    /\ \E failed \in SUBSET EncodeCalls(threads[t].work_experience, threads[t].achievements) :
          threads' = Goto(ThreadSet(ThreadSet(ThreadSet(threads,
                              t, "last_role", LastRole(threads[t].work_experience)),
                              t, "embeddings", GenerateEmbeddings(threads[t].work_experience,
                                                                  threads[t].achievements, failed)),
                              t, "encoder", IF EncodeCalls(threads[t].work_experience, threads[t].achievements) = {}
                                            THEN 0 ELSE parser.embedder),
                          t, "return")
    /\ UNCHANGED <<models, parser, matcher, calls, parse_vars, search_vars>>

\* return {...}: the caller is given the dict, and the locals are no more
ThreadParseReturn(t) ==
    /\ threads[t].pc = "return"
    /\ threads' = [threads EXCEPT ![t] = [Idle EXCEPT !.op = "parse", !.pc = "done", !.text = threads[t].text,
                                                  !.encoder = threads[t].encoder,
                                                  !.value = ParseResult(threads[t])]]
    /\ UNCHANGED <<models, parser, matcher, calls, parse_vars, search_vars>>

\* find_similar_experiences up to the query embedding: the empty input returns at once
ThreadEncodeQuery(t) ==
    /\ threads[t].pc = "encode_query"
    /\ threads' = IF threads[t].input.is_none \/ threads[t].input.blocks = <<>>
                  THEN Goto(ThreadSet(threads, t, "value", [outcome |-> "returned",
                          value |-> <<>>]), t, "done")
                  ELSE Goto(ThreadSet(threads, t, "encoder", matcher.embedder), t, "rank")
    /\ UNCHANGED <<models, parser, matcher, calls, parse_vars, search_vars>>

\* the rest of find_similar_experiences
ThreadRank(t) ==
    /\ threads[t].pc = "rank"
    /\ \E outcome \in FindSimilarOutcomes(threads[t].input, ProcessSimilarity, DefaultTopK, DefaultThreshold) :
          threads' = Goto(ThreadSet(threads, t, "value", outcome), t, "done")
    /\ UNCHANGED <<models, parser, matcher, calls, parse_vars, search_vars>>

\* cluster_experiences_by_theme with n_clusters = None
ThreadCluster(t) ==
    /\ threads[t].pc = "cluster"
    /\ \E outcome \in ClusterExperiencesByTheme(threads[t].input, <<>>) :
          threads' = Goto(ThreadSet(threads, t, "value", outcome), t, "done")
    /\ UNCHANGED <<models, parser, matcher, calls, parse_vars, search_vars>>

(***************************************************************************)
(* The specifications                                                      *)
(***************************************************************************)
NoSearch ==
    /\ embeddings_input = None /\ similarity = <<>> /\ call = NoCall /\ result = NoResult
    /\ clustering = NoClustering

NoParse ==
    /\ resume_text = EmptyStr /\ pc = "return"
    /\ sections = Unset /\ headline = Unset /\ work_experience = Unset /\ skills = Unset
    /\ education = Unset /\ achievements = Unset /\ last_role = Unset /\ embeddings = Unset
    /\ encode_raised = {}

\* no services package imported, no thread at work
NoProcess ==
    /\ models = <<>> /\ parser = NoSingleton /\ matcher = NoSingleton
    /\ threads = [t \in Threads |-> Idle] /\ calls = 0

\* one call of parse, on any of the resume texts
Init == ParseInit /\ NoSearch /\ NoProcess

Next ==
    \/ ParseIdentifySections
    \/ ParseExtractHeadline
    \/ ParseExtractWorkExperience
    \/ ParseExtractSkills
    \/ ParseExtractEducation
    \/ ParseExtractAchievements
    \/ ParseGenerateEmbeddings

Spec == Init /\ [][Next]_vars

\* calls of the vector service, on any of the embeddings inputs
InitSearch == SearchInit /\ NoParse /\ NoProcess

NextSearch ==
    \/ SearchFindSimilarExperiences
    \/ SearchMatchSkillsToExperiences
    \/ SearchFindStoryCandidates
    \/ SearchClusterAdaptively

SearchSpec == InitSearch /\ [][NextSearch]_vars


\* calls of cluster_experiences_by_theme, on any of the clustering inputs
InitCluster == ClusterInit /\ NoParse /\ NoProcess

NextCluster == SearchClusterExperiencesByTheme

ClusterSpec == InitCluster /\ [][NextCluster]_vars

\* a process: the import, then one invocation of the singletons in each of MaxThreads threads
InitProcess == NoParse /\ NoSearch /\ NoProcess

NextProcess ==
    \/ ImportServices
    \/ \E t \in Threads :
          \/ CallParse(t)
          \/ CallFindSimilarExperiences(t)
          \/ CallClusterExperiencesByTheme(t)
          \/ ThreadExtract(t)
          \/ ThreadGenerateEmbeddings(t)
          \/ ThreadParseReturn(t)
          \/ ThreadEncodeQuery(t)
          \/ ThreadRank(t)
          \/ ThreadCluster(t)

ProcessSpec == InitProcess /\ [][NextProcess]_vars

\* _identify_sections and _extract_headline, the first two statements of parse,
\* on texts made of header lines
InitSections ==
    /\ resume_text \in SectionTexts
    /\ pc = "identify_sections"
    /\ sections = Unset /\ headline = Unset /\ work_experience = Unset /\ skills = Unset
    /\ education = Unset /\ achievements = Unset /\ last_role = Unset /\ embeddings = Unset
    /\ encode_raised = {}
    /\ NoSearch /\ NoProcess

NextSections ==
    \/ ParseIdentifySections
    \/ ParseExtractHeadline

SectionsSpec == InitSections /\ [][NextSections]_vars
(***************************************************************************)
(* The properties                                                          *)
(***************************************************************************)
\* parse has returned
Returned == pc = "return"

TextLines == Split(resume_text, "\n")

\* the category lists of the result, one after another
ByCategoryStrings == AllSkills(skills.by_category)

\* C1: a resume text in which no line contains a section keyword parses, without
\* raising, to a result whose list and mapping fields are all empty:
\* work_experience, achievements, every skills.by_category list, skills.all,
\* skills.linked_to_roles, embeddings.work_experience and embeddings.achievements.
C1_NoSectionsAllEmpty ==
    (Returned /\ \A k \in 1..Len(TextLines) : SectionOfLine(TextLines[k]) = "none") =>
        /\ work_experience = <<>>
        /\ achievements = <<>>
        /\ \A c \in DOMAIN skills.by_category : skills.by_category[c] = <<>>
        /\ skills.all = <<>>
        /\ DOMAIN skills.linked_to_roles = {}
        /\ embeddings.work_experience = <<>>
        /\ embeddings.achievements = <<>>

\* the lines of the experience section: from its header line to the line before
\* the next section header after it
ExperienceSectionLines == Split(SectionText(resume_text, sections, "experience"), "\n")

\* C2: when an experience section is detected and no line of it contains "|",
\* parse returns with work_experience empty and embeddings.work_experience empty.
C2_NoPipeNoRoles ==
    (/\ Returned
     /\ "experience" \in DOMAIN sections
     /\ \A k \in 1..Len(ExperienceSectionLines) : ~Contains(ExperienceSectionLines[k],
             << "|" >>)) =>
        work_experience = <<>> /\ embeddings.work_experience = <<>>

\* the role header lines of the experience region: the lines with "|" and a role keyword
RoleHeaderLines ==
    LET lines == ExperienceLines(resume_text, sections)
    IN  {k \in 1..Len(lines) : IsRoleHeader(Strip(lines[k]))}

\* C3: work_experience holds exactly one role record per role header line of the
\* experience region; for Scenario A it holds exactly one record, the role
\* Senior Engineer at Acme Corp with end_date Present.
C3_OneRecordPerRoleHeader ==
    Returned =>
        /\ Len(work_experience) = Cardinality(RoleHeaderLines)
        /\ resume_text = ScenarioA =>
              /\ Len(work_experience) = 1
              /\ work_experience[1].role_title = <<"S", "e", "n", "i", "o", "r", " ", "E", "n",
                      "g", "i", "n", "e", "e", "r">>
              /\ work_experience[1].company = <<"A", "c", "m", "e", " ", "C", "o", "r", "p">>
              /\ work_experience[1].end_date = <<"P", "r", "e", "s", "e", "n", "t">>

\* the names of the months, by their first three letters
MonthNames == << <<"j", "a", "n">>, <<"f", "e", "b">>, <<"m", "a", "r">>, <<"a", "p", "r">>,
        <<"m", "a", "y">>, <<"j", "u", "n">>, <<"j", "u", "l">>, <<"a", "u", "g">>, <<"s", "e",
        "p">>, <<"o", "c", "t">>, <<"n", "o", "v">>, <<"d", "e", "c">> >>

\* the month a calendar date names, 12 for a year alone
MonthOf(date) ==
    LET named == {m \in 1..12 : StartsWith(Lower(date), MonthNames[m])}
    IN  IF named = {} THEN 12 ELSE SetMin(named)

IsOpenEnded(date) == Lower(date) \in {<<"p", "r", "e", "s", "e", "n", "t">>, <<"c", "u", "r",
        "r", "e", "n", "t">>}

\* when an end date is, in months; an open-ended role ends after every calendar date
EndOf(date) ==
    IF IsOpenEnded(date) THEN 12 * 10000
    ELSE 12 * ParseInt(SubSeq(date, Len(date) - 3, Len(date))) + MonthOf(date)

\* C4: in a parse result the roles whose end date was resolved are in
\* most-recent-first order of end date, the roles ending Present or Current
\* before the roles with a calendar end date.
C4_MostRecentFirst ==
    Returned =>
        \A i, j \in 1..Len(work_experience) :
            (i < j /\ work_experience[i].end_date # <<>> /\ work_experience[j].end_date # <<>>) =>
                /\ EndOf(work_experience[i].end_date) >= EndOf(work_experience[j].end_date)
                /\ IsOpenEnded(work_experience[j].end_date) => IsOpenEnded(work_experience[i].end_date)

\* C5: no result that find_similar_experiences, match_skills_to_experiences or
\* find_story_candidates returns has a similarity below the threshold of the call.
C5_NoResultBelowThreshold ==
    result.outcome = "returned" =>
        \A k \in 1..Len(result.value) : result.value[k].similarity >= call.threshold

\* a call returned results although a vector of the input is below its threshold
C5_ThresholdApplied ==
    /\ result.outcome = "returned" /\ result.value # <<>>
    /\ \E v \in VectorsOf(embeddings_input.blocks) : similarity[v] < call.threshold

\* C6: every block of embeddings.work_experience has as many embeddings as texts,
\* embeddings[i] is the encoding of texts[i], and the texts are those of the
\* accomplishments of the block's role, in their order.
C6_EmbeddingsAligned ==
    Returned =>
        \A b \in 1..Len(embeddings.work_experience) :
            LET block == embeddings.work_experience[b]
            IN  /\ Len(block.embeddings) = Len(block.texts)
                /\ \A i \in 1..Len(block.texts) : block.embeddings[i] = EncodeText(block.texts[i])
                /\ \E r \in 1..Len(work_experience) :
                      LET role == work_experience[r]
                      IN  /\ role.role_title = block.role_title /\ role.company = block.company
                          /\ Len(block.texts) = Len(role.accomplishments)
                          /\ \A i \in 1..Len(block.texts) :
                                block.texts[i] = role.role_title \o <<" ", "a", "t",
                                        " ">> \o role.company \o <<":", " ">>
                                                    \o role.accomplishments[i].text

\* a block of two or more texts
C6_BlockOfSeveralTexts ==
    Returned /\ \E b \in 1..Len(embeddings.work_experience) : Len(embeddings.work_experience[b].texts) >= 2

\* the accomplishment records of the result
AccomplishmentRecords ==
    UNION {SeqRange(work_experience[r].accomplishments) : r \in 1..Len(work_experience)}

\* C7 (as stated): an accomplishment with has_quantifier = true has an ASCII
\* digit (0-9) in its text.
C7_QuantifierHasAsciiDigit ==
    Returned =>
        \A acc \in AccomplishmentRecords :
            acc.has_quantifier => \E i \in 1..Len(acc.text) : acc.text[i] \in AsciiDigits

\* C7 (amended): an accomplishment with has_quantifier = true has a decimal
\* digit in its text, ASCII or not: \d matches every Unicode decimal digit.
C7_QuantifierHasDigit ==
    Returned =>
        \A acc \in AccomplishmentRecords :
            acc.has_quantifier => \E i \in 1..Len(acc.text) : IsDigit(acc.text[i])

\* an accomplishment with a quantifier and no ASCII digit
C7_QuantifierOfOtherDigits ==
    Returned /\ \E acc \in AccomplishmentRecords :
        acc.has_quantifier /\ \A i \in 1..Len(acc.text) : acc.text[i] \notin AsciiDigits

\* C8: skills.all holds no string twice, and holds every string of every
\* skills.by_category list.
C8_AllSkillsDistinct ==
    Returned =>
        /\ \A i, j \in 1..Len(skills.all) : i # j => skills.all[i] # skills.all[j]
        /\ SeqRange(ByCategoryStrings) \subseteq SeqRange(skills.all)

\* a skill listed under two categories, and a category list with a skill twice
C8_OverlappingCategories ==
    /\ Returned
    /\ \E c, d \in DOMAIN skills.by_category :
          c # d /\ SeqRange(skills.by_category[c]) \cap SeqRange(skills.by_category[d]) # {}
    /\ \E c \in DOMAIN skills.by_category :
          \E i, j \in 1..Len(skills.by_category[c]) : i # j /\ skills.by_category[c][i] = skills.by_category[c][j]

\* C9: the Scenario A role, whose only bullet is "Led team of 5 engineers,
\* increased throughput by 40%", has team_context.size = 5.
C9_ScenarioATeamSize ==
    (Returned /\ resume_text = ScenarioA) =>
        \E r \in 1..Len(work_experience) :
            /\ work_experience[r].role_title = <<"S", "e", "n", "i", "o", "r", " ", "E", "n",
                    "g", "i", "n", "e", "e", "r">>
            /\ "size" \in DOMAIN work_experience[r].team_context
            /\ work_experience[r].team_context.size = 5

IsHonorLine(line) == ContainsAny(Lower(line), HonorKeywords)

\* the lines of the education section that name an honor: the lines after the
\* EDUCATION header with no section header between the header and them; a line
\* that names an honor is not a header
EducationHonorLines ==
    {k \in 1..Len(TextLines) :
        /\ k - 1 > sections["education"]
        /\ IsHonorLine(TextLines[k])
        /\ \A j \in (sections["education"] + 2)..(k - 1) :
              SectionOfLine(TextLines[j]) = "none" \/ IsHonorLine(TextLines[j])}

\* C10: when a line of the education section contains an honor keyword,
\* education.is_standout is true and standout_reasons holds the honors reason,
\* with or without a GPA.
C10_HonorsAreStandout ==
    (Returned /\ "education" \in DOMAIN sections /\ EducationHonorLines # {}) =>
        /\ education.is_standout
        /\ <<"A", "c", "a", "d", "e", "m", "i", "c", " ", "h", "o", "n", "o", "r", "s", "/", "a",
                "w", "a", "r", "d", "s">> \in SeqRange(education.standout_reasons)

\* the text of the education section, and the groups of its first GPA mention
EducationText == SectionText(resume_text, sections, "education")

GpaMention == Search(EducationText, GpaAt)

\* the number int.frac times 10^Len(frac)
Scaled(int, frac) == ParseInt(int) * Pow10(Len(frac)) + ParseInt(frac)

\* the decimal string s denotes the number of the GPA mention m
SameNumber(s, m) ==
    LET parts == Split(s, ".")
    IN  /\ Len(parts) = 2
        /\ Scaled(parts[1], parts[2]) * Pow10(Len(m[2])) = Scaled(m[1], m[2]) * Pow10(Len(parts[2]))

\* the GPA mention m is a number >= 3.5
AtLeast35(m) == 2 * Scaled(m[1], m[2]) >= 7 * Pow10(Len(m[2]))

HighGpaReason == <<"H", "i", "g", "h", " ", "G", "P", "A", ":", " ">> \o education.gpa

C11_LowGpa ==
    /\ Returned /\ "education" \in DOMAIN sections /\ GpaMention # <<>>
    /\ ~AtLeast35(GpaMention) /\ ~education.is_standout

\* the one-based numbers of the lines that hold a keyword of the section name
LinesOfSection(name) == {k \in 1..Len(TextLines) : SectionOfLine(TextLines[k]) = name}

\* C20: when several lines contain a keyword of the same section, the section
\* is mapped to the index of the first such line (first match wins); a later
\* line that contains the keyword does not change the recorded index.
C20_FirstMatchWins ==
    Returned => \A name \in DOMAIN sections : sections[name] = SetMin(LinesOfSection(name)) - 1

\* the category whose prefix the line starts with, as <<category, keyword>>
PrefixesOfLine(line) ==
    {<<SkillCategories[c].category, SkillCategories[c].keywords[k]>> :
        c \in 1..Len(SkillCategories), k \in 1..2} \cap
    {p \in CategoryNames \X {SkillCategories[c].keywords[k] : c \in 1..Len(SkillCategories), k \in 1..2} :
        StartsWith(Strip(line), p[2])}

\* the stripped items that follow the prefix on the line
ItemsAfterPrefix(line, keyword) ==
    LET stripped == Strip(line)
        rest == SubSeq(stripped, Len(keyword) + 1, Len(stripped))
        parts == SplitOn(rest, {",", ";"})
    IN  {Strip(parts[k]) : k \in 1..Len(parts)}

\* the SKILLS header: the first line with a skills keyword that is no prefix line
SkillsHeaderLines == {k \in LinesOfSection("skills") : PrefixesOfLine(TextLines[k]) = {}}

\* the lines between the SKILLS header and the header of the next other section
SkillsBodyLines ==
    LET header == SetMin(SkillsHeaderLines)
        next == {k \in (header + 1)..Len(TextLines) : SectionOfLine(TextLines[k]) \notin {"none", "skills"}}
        end == IF next = {} THEN Len(TextLines) ELSE SetMin(next) - 1
    IN  (header + 1)..end

\* C12: for every category-prefix line between the SKILLS header line and the
\* next section header, the comma/semicolon-separated items after the prefix
\* all appear in skills.by_category under that prefix's category.
C12_PrefixLineItemsListed ==
    (Returned /\ SkillsHeaderLines # {}) =>
        \A k \in SkillsBodyLines : \A p \in PrefixesOfLine(TextLines[k]) :
            ItemsAfterPrefix(TextLines[k], p[2]) \subseteq SeqRange(skills.by_category[p[1]])

\* the roles whose batch was encoded: those with an accomplishment whose encode
\* call did not raise, in work_experience order
RolesEncoded ==
    Ascending({r \in 1..Len(work_experience) :
                  work_experience[r].accomplishments # <<>> /\ r \notin encode_raised})

\* C13: if the encoder raises while encoding one role's batch, parse still
\* returns: embeddings.work_experience omits that role's block and holds, in
\* work_experience order, one block for every other role with an accomplishment;
\* if the achievements batch fails, embeddings.achievements is left empty and
\* the role blocks are kept.
C13_EncodeFailureSkipsBatch ==
    Returned =>
        /\ Len(embeddings.work_experience) = Len(RolesEncoded)
        /\ \A b \in 1..Len(RolesEncoded) :
              LET role == work_experience[RolesEncoded[b]]
                  block == embeddings.work_experience[b]
              IN  /\ block.role_title = role.role_title /\ block.company = role.company
                  /\ Len(block.texts) = Len(role.accomplishments)
                  /\ Len(block.embeddings) = Len(role.accomplishments)
        /\ 0 \in encode_raised => DOMAIN embeddings.achievements = {}
        /\ (0 \notin encode_raised /\ achievements # <<>>) =>
              /\ DOMAIN embeddings.achievements = {"embeddings", "texts"}
              /\ Len(embeddings.achievements.texts) = Len(achievements)

\* the first role's batch raised and a later role's block is there
C13_LaterRoleKept ==
    /\ Returned /\ encode_raised # {} /\ 0 \notin encode_raised
    /\ \E r \in 1..Len(work_experience) : r > SetMin(encode_raised) /\ r \in SeqRange(RolesEncoded)

\* the achievements batch raised and the role blocks are there
C13_AchievementsBatchRaised ==
    Returned /\ encode_raised = {0} /\ embeddings.work_experience # <<>>

\* the embeddings input is missing, has no block, or has blocks without vectors
EmptyEmbeddingsInput == embeddings_input.is_none \/ VectorsOf(embeddings_input.blocks) = {}

\* C14: find_similar_experiences returns the empty list and
\* cluster_experiences_by_theme returns the empty mapping, without raising,
\* whenever the embeddings input is missing (None) or empty, including an input
\* whose role blocks carry no embedding vectors.
C14_EmptyInputEmptyResult ==
    EmptyEmbeddingsInput =>
        /\ call.name = "find_similar_experiences" =>
              result.outcome = "returned" /\ result.value = <<>>
        /\ call.name = "cluster_experiences_by_theme" =>
              clustering.outcome = "returned" /\ DOMAIN clustering.value = {}

\* C15: for top_k >= 1 the list find_similar_experiences returns is sorted in
\* non-increasing order of similarity across all roles and has at most top_k
\* entries, however many roles and accomplishments the input holds.
C15_SortedAndTruncated ==
    (result.outcome = "returned" /\ call.top_k >= 1) =>
        /\ Len(result.value) <= call.top_k
        /\ \A k \in 1..(Len(result.value) - 1) :
              result.value[k].similarity >= result.value[k + 1].similarity

\* a result of a later role comes before a result of an earlier role, and the
\* roles had more candidates than top_k
C15_LaterRoleFirst ==
    /\ result.outcome = "returned" /\ call.top_k >= 1
    /\ Len(result.value) = call.top_k /\ Len(result.value) >= 2
    /\ Len(embeddings_input.blocks) >= 2
    /\ result.value[1].role_title = embeddings_input.blocks[2].role_title
    /\ result.value[2].role_title = embeddings_input.blocks[1].role_title
    /\ Cardinality({v \in VectorsOf(embeddings_input.blocks) : similarity[v] >= call.threshold}) > call.top_k

\* the texts of the input, pooled role by role
PooledTexts == Flatten([r \in 1..Len(embeddings_input.blocks) |-> embeddings_input.blocks[r].texts])

\* a call of cluster_experiences_by_theme with n_clusters = None has ended
ClusteredAdaptively ==
    call.name = "cluster_experiences_by_theme" /\ call.n_clusters = <<>> /\ clustering.outcome # "none"

\* C16: called with n_clusters = None on N >= 1 pooled accomplishments,
\* cluster_experiences_by_theme returns exactly one cluster, 'cluster_0', with
\* all N members in pooled order if N < 4; if N >= 4 it runs the clustering with
\* k = min(5, floor(N/2)), so 2 <= k <= 5 and k <= N.
C16_AdaptiveClusterCount ==
    (ClusteredAdaptively /\ Len(PooledTexts) >= 1) =>
        LET N == Len(PooledTexts)
            key == <<"c", "l", "u", "s", "t", "e", "r", "_", "0">>
        IN  /\ N < 4 =>
                /\ clustering.outcome = "returned" /\ clustering.kmeans = <<>>
                /\ DOMAIN clustering.value = {key}
                /\ Len(clustering.value[key]) = N
                /\ \A n \in 1..N : clustering.value[key][n].text = PooledTexts[n]
            /\ N >= 4 =>
                /\ Len(clustering.kmeans) = 1
                /\ clustering.kmeans[1] = (IF N \div 2 < 5 THEN N \div 2 ELSE 5)
                /\ 2 <= clustering.kmeans[1] /\ clustering.kmeans[1] <= 5 /\ clustering.kmeans[1] <= N
                /\ clustering.outcome = "returned"

\* a pool of twelve or more, for which floor(N/2) is above the cap
C16_CapReached ==
    /\ ClusteredAdaptively /\ Len(PooledTexts) >= 12
    /\ clustering.outcome = "returned" /\ clustering.kmeans = <<5>>

\* a pool of three in one cluster
C16_TrivialCluster ==
    /\ ClusteredAdaptively /\ Len(PooledTexts) = 3
    /\ clustering.outcome = "returned" /\ clustering.kmeans = <<>>

\* the services package is imported
Imported == parser # NoSingleton /\ matcher # NoSingleton

\* C17: exactly one text-embedding model instance is constructed in the
\* process, and the parser's embedding generation and the matcher's query
\* encoding both use that same instance; no second model is loaded however many
\* parse or search calls are made.
C17_OneSharedModel ==
    /\ Len(models) <= 1
    /\ Imported => Len(models) = 1 /\ parser.embedder = matcher.embedder
    /\ \A t, u \in Threads :
          (threads[t].encoder # 0 /\ threads[u].encoder # 0) => threads[t].encoder = threads[u].encoder

\* the statement each thread is at
ThreadPcs == [t \in Threads |-> threads[t].pc]

\* the values an invocation can return when it runs alone
ReturnsAlone(th) ==
    IF th.op = "parse" THEN ParseAlone(th.text)
    ELSE IF th.op = "find_similar_experiences"
    THEN FindSimilarOutcomes(th.input, ProcessSimilarity, DefaultTopK, DefaultThreshold)
    ELSE ClusterExperiencesByTheme(th.input, <<>>)

\* an invocation that ends in the step returns a value it can return when run alone
StepReturnsAsAlone ==
    \A t \in Threads :
        (threads[t].pc # "done" /\ threads'[t].pc = "done") => threads'[t].value \in ReturnsAlone(threads'[t])

\* a step of an invocation leaves the singletons, the model instances and the
\* arguments of every running invocation as they were
InvocationStepKeepsShared ==
    Imported =>
        /\ parser' = parser /\ matcher' = matcher /\ models' = models
        /\ \A t \in Threads :
              (threads[t].op # "idle" /\ threads'[t].op # "idle") =>
                  threads'[t].text = threads[t].text /\ threads'[t].input = threads[t].input

\* C18: no parse, find_similar_experiences or cluster_experiences_by_theme
\* invocation writes a field of the shared singletons or of its caller-owned
\* input; so under any interleaving of concurrent invocations each invocation
\* returns a result it would return when run alone.
C18_NoSharedWrites == [][InvocationStepKeepsShared /\ StepReturnsAsAlone]_<<ThreadPcs, vars>>

\* a parse has ended while another thread is in the middle of a parse of another text
C18_InterleavedParses ==
    \E t, u \in Threads :
        /\ threads[t].op = "parse" /\ threads[t].pc = "done"
        /\ threads[u].op = "parse" /\ threads[u].pc \in {"generate_embeddings", "return"}
        /\ threads[u].text # threads[t].text

\* the accomplishments that tell of a recognition, as 100 * role + accomplishment,
\* in work_experience order and then in accomplishment order
Recognised ==
    LET pairs == UNION {{<<r, a>> : a \in {a \in 1..Len(work_experience[r].accomplishments) :
                            ContainsAny(Lower(work_experience[r].accomplishments[a].text), RecognitionWords)}} :
                        r \in 1..Len(work_experience)}
    IN  Ascending({100 * p[1] + p[2] : p \in pairs})

\* the entries of the achievements list that are no work_recognition
SectionEntries == {k \in 1..Len(achievements) : achievements[k].type # "work_recognition"}

\* the achievements list is the n entries of the section, then the recognised
\* accomplishments in order, each with the title and company of its role
SectionThenRecognised(n, section, recognised) ==
    /\ SectionEntries = 1..n
    /\ \A k \in 1..n : achievements[k].type \in {"award", "achievement"}
    /\ SubSeq(achievements, 1, n) = section
    /\ Len(achievements) = n + Len(recognised)
    /\ \A k \in 1..Len(recognised) :
          LET role == work_experience[recognised[k] \div 100]
              entry == achievements[n + k]
          IN  /\ entry.type = "work_recognition"
              /\ entry.text = role.accomplishments[recognised[k] % 100].text
              /\ entry.role = role.role_title /\ entry.company = role.company

\* C19: in the achievements list every entry taken from the achievements
\* section (type 'award' or 'achievement', in line order) precedes every
\* 'work_recognition' entry; the work_recognition entries come in
\* work_experience order, then accomplishment order within a role, and each
\* carries the role_title and company of the role it came from.
C19_SectionEntriesFirst ==
    Returned =>
        SectionThenRecognised(Cardinality(SectionEntries),
                              SectionAchievements(resume_text, sections), Recognised)

\* entries of the section, then a work_recognition entry
C19_BothSources ==
    Returned /\ SectionEntries # {} /\ Recognised # <<>> /\ Len(achievements) > Len(Recognised)

\* work_recognition entries of two roles
C19_TwoRolesRecognised ==
    Returned /\ \E j, k \in 1..Len(Recognised) : Recognised[j] \div 100 # Recognised[k] \div 100


\* the lines from the experience header line up to the first section header
\* after it, or to the end of the text
ExperienceRegion == Split(SectionText(resume_text, sections, "experience"), "\n")

\* C21: the text handed to the role block splitter is the lines from the
\* experience header line up to (not including) the first detected section
\* header after it, or to the end of the document when no section follows; a
\* section whose header comes before the experience header neither shortens nor
\* empties the region.
C21_RegionEndsAtNextSection ==
    (Returned /\ "experience" \in DOMAIN sections) =>
        ExperienceLines(resume_text, sections) = ExperienceRegion

\* the blocks the splitter makes of the experience region
RoleBlocks == SplitIntoRoles(Join(ExperienceLines(resume_text, sections), NL))

\* the first line of a block
FirstLine(block) == Split(block, "\n")[1]

\* a block is well formed when its first line is pipe-delimited
WellFormed(block) == block # <<>> /\ Contains(FirstLine(block), << "|" >>)

\* C22: _parse_role_block returns None, without raising, for an empty block and
\* for a block whose first line is not a pipe-delimited role header, and
\* _extract_work_experience drops such a block and keeps the records of the
\* other blocks: work_experience holds one record per well-formed block and
\* none of a malformed one.
C22_MalformedBlocksDropped ==
    Returned =>
        /\ Len(work_experience) = Cardinality({k \in 1..Len(RoleBlocks) : WellFormed(RoleBlocks[k])})
        /\ \A k \in 1..Len(work_experience) : WellFormed(work_experience[k].raw_text)

\* the vectors of all roles together whose similarity reaches the threshold of the call
Pooled == {v \in VectorsOf(embeddings_input.blocks) : similarity[v] >= call.threshold}

\* how many of the top_k largest of the pooled similarities are x: the pooled
\* vectors of similarity x, as far as the places left by the larger ones go
PooledTopK(x) ==
    LET larger == Cardinality({v \in Pooled : similarity[v] > x})
        equal == Cardinality({v \in Pooled : similarity[v] = x})
    IN  SetMin({equal, SetMax({0, call.top_k - larger})})

\* C23: keeping only the role-local top_k of each role before the merge loses
\* nothing: for top_k >= 1 the similarities find_similar_experiences returns
\* are, as a multiset, the top_k largest similarities of all accomplishments of
\* all roles that reach the threshold.
C23_LocalTopKLosesNothing ==
    (result.outcome = "returned" /\ call.top_k >= 1) =>
        \A x \in Similarities :
            Cardinality({k \in 1..Len(result.value) : result.value[k].similarity = x}) = PooledTopK(x)

\* two roles have candidates, one of them more than top_k, and the pool is
\* larger than top_k
C23_RoleCutBeforeMerge ==
    /\ result.outcome = "returned" /\ call.top_k >= 1
    /\ Cardinality(Pooled) > call.top_k
    /\ \E r, q \in 1..Len(embeddings_input.blocks) :
          /\ r # q
          /\ Cardinality(Pooled \cap SeqRange(embeddings_input.blocks[r].embeddings)) > call.top_k
          /\ Pooled \cap SeqRange(embeddings_input.blocks[q].embeddings) # {}

\* the accomplishments of the input, pooled role by role: what each is expected
\* to be listed as
PooledMembers ==
    Flatten([r \in 1..Len(embeddings_input.blocks) |->
                [i \in 1..Len(embeddings_input.blocks[r].texts) |->
                    [role_title |-> embeddings_input.blocks[r].role_title,
                     company |-> embeddings_input.blocks[r].company,
                     text |-> embeddings_input.blocks[r].texts[i]]]])

\* the places of the returned mapping: <<cluster, position>>
ClusterPlaces(clusters) == UNION {{<<key,
        k>> : k \in 1..Len(clusters[key])} : key \in DOMAIN clusters}

\* a call of cluster_experiences_by_theme has returned a mapping
ClustersReturned == call.name = "cluster_experiences_by_theme" /\ clustering.outcome = "returned"

\* n_clusters as chosen: the one given, or the adaptive one
ChosenNClusters ==
    IF call.n_clusters # <<>> THEN call.n_clusters[1]
    ELSE IF Len(PooledMembers) \div 2 < 5 THEN Len(PooledMembers) \div 2 ELSE 5

\* the mapping is a partition of the pool, in pooled order inside each
\* cluster, of at most most clusters, none of them empty
PartitionOfPool(clusters, pool, most) ==
    /\ \A n \in 1..Len(pool) :
          Cardinality({p \in ClusterPlaces(clusters) : clusters[p[1]][p[2]] = pool[n]}) = 1
    /\ Cardinality(ClusterPlaces(clusters)) = Len(pool)
    /\ \A key \in DOMAIN clusters :
          /\ clusters[key] # <<>>
          /\ \A j, k \in 1..Len(clusters[key]) :
                j < k => \E m, n \in 1..Len(pool) :
                            m < n /\ pool[m] = clusters[key][j] /\ pool[n] = clusters[key][k]
    /\ Cardinality(DOMAIN clusters) <= most

\* C24 as stated: the mapping cluster_experiences_by_theme returns is a
\* partition of the pooled accomplishments, each in exactly one cluster exactly
\* once with its own role_title, company and text, no cluster empty, members in
\* pooled order, and the number of clusters at most the chosen n_clusters.
C24_AtMostChosenClusters ==
    ClustersReturned => PartitionOfPool(clustering.value, PooledMembers, ChosenNClusters)

\* C24: the mapping cluster_experiences_by_theme returns is a partition of the
\* pooled accomplishments: every accomplishment of every role block is in
\* exactly one cluster exactly once with its own role_title, company and text,
\* no returned cluster is empty, members keep the pooled order inside a
\* cluster, and the number of clusters is at most the chosen n_clusters, or one
\* when the chosen n_clusters is below two (the single cluster 'cluster_0').
C24_PartitionOfPool ==
    ClustersReturned =>
        PartitionOfPool(clustering.value, PooledMembers, SetMax({1, ChosenNClusters}))

\* the clustering ran and left a label unused, and a cluster holds
\* accomplishments of two roles
C24_MixedCluster ==
    /\ ClustersReturned /\ clustering.kmeans # <<>>
    /\ Cardinality(DOMAIN clustering.value) < ChosenNClusters
    /\ \E key \in DOMAIN clustering.value :
          \E j, k \in 1..Len(clustering.value[key]) :
              clustering.value[key][j].role_title # clustering.value[key][k].role_title

\* one accomplishment, n_clusters chosen adaptively as 0, one cluster returned
C24_OneClusterOfNone ==
    /\ ClustersReturned /\ ChosenNClusters = 0
    /\ Cardinality(DOMAIN clustering.value) = 1

\* the structural fields of the parse result
Structure == <<headline, work_experience, skills, education, achievements>>

\* the structural fields hold what the extraction statements gave them
Extracted ==
    /\ DOMAIN headline = {"name", "title", "contact"}
    /\ Len(work_experience) >= 0
    /\ {"by_category", "all", "linked_to_roles"} \subseteq DOMAIN skills
    /\ "is_standout" \in DOMAIN education
    /\ Len(achievements) >= 0

\* the step of _generate_embeddings: it is the step that leads to the return
EmbeddingStep == pc = "generate_embeddings" /\ pc' = "return"

\* C25: embedding generation runs only after work_experience, skills, education
\* and achievements have been extracted and does not modify them: headline,
\* work_experience, skills, education and achievements of the result are what
\* they were before the encode calls, whichever of the calls raise.
C25_EmbeddingKeepsStructure ==
    [][/\ (pc' = "return" \/ pc = "generate_embeddings") => EmbeddingStep
       /\ EmbeddingStep => (Extracted /\ UNCHANGED Structure)]_<<pc, vars>>

\* a role batch and the achievements batch raised, and the roles and
\* achievements are in the result
C25_RaisedWithStructure ==
    /\ Returned /\ 0 \in encode_raised /\ encode_raised # {0}
    /\ \A r \in encode_raised \ {0} : work_experience[r].accomplishments # <<>>
    /\ achievements # <<>>

\* _extract_work_experience has just returned
WorkExperienceExtracted == pc = "extract_skills"

\* the lines of the block of a role
BlockLines(role) == Split(role.raw_text, "\n")

\* the lines after the header that start with one of the three markers
MarkedLines(lines) ==
    Ascending({k \in 2..Len(lines) : lines[k] # <<>> /\ lines[k][1] \in {"U+2022", "-", "*"}})

\* text is the line without its first character and the whitespace after it
IsLineWithoutMarker(line, text) ==
    \E w \in 0..(Len(line) - 1) :
        /\ \A i \in 2..(w + 1) : IsSpace(line[i])
        /\ text = SubSeq(line, w + 2, Len(line))
        /\ text = <<>> \/ ~IsSpace(text[1])

\* the accomplishments of a role are its marked lines, and kpis the texts of
\* those with a quantifier
AccomplishmentsAreMarkedLines(role, lines, marked) ==
    /\ Len(role.accomplishments) = Len(marked)
    /\ \A a \in 1..Len(marked) : IsLineWithoutMarker(lines[marked[a]], role.accomplishments[a].text)
    /\ LET quantified == Ascending({a \in 1..Len(marked) : role.accomplishments[a].has_quantifier})
       IN  /\ Len(role.kpis) = Len(quantified)
           /\ \A q \in 1..Len(quantified) : role.kpis[q] = role.accomplishments[quantified[q]].text

\* C26: the accomplishments of a role are exactly the non-header lines of its
\* block that start with a bullet marker, in block order, each stored without
\* its leading marker and the whitespace after it; a line that starts with no
\* marker gives no accomplishment; kpis is the list of the texts of the
\* accomplishments with has_quantifier = true, in the same order.
C26_AccomplishmentsAreBullets ==
    WorkExperienceExtracted =>
        \A r \in 1..Len(work_experience) :
            AccomplishmentsAreMarkedLines(work_experience[r], BlockLines(work_experience[r]),
                                          MarkedLines(BlockLines(work_experience[r])))

\* a role with a line that is no bullet, an accomplishment that is a kpi and
\* one that is not
C26_MixedBlock ==
    WorkExperienceExtracted /\ \E r \in 1..Len(work_experience) :
        /\ Len(BlockLines(work_experience[r])) > Len(work_experience[r].accomplishments) + 1
        /\ work_experience[r].kpis # <<>>
        /\ Len(work_experience[r].kpis) < Len(work_experience[r].accomplishments)

\* the roles of the result that have an accomplishment
RolesWithAccomplishments == {r \in 1..Len(work_experience) : work_experience[r].accomplishments # <<>>}

\* every way find_similar_experiences can end on the blocks, every vector at
\* the default threshold, is a return
SearchReturnsOn(blocks) ==
    \A outcome \in FindSimilarOutcomes(Given(blocks), [v \in VectorsOf(blocks) |-> DefaultThreshold],
                                       DefaultTopK, DefaultThreshold) :
        outcome.outcome = "returned"

\* the blocks each hold a text and as many vectors as texts, are no more than
\* most, and find_similar_experiences returns on them
BlocksHoldVectors(blocks, most) ==
    /\ \A b \in 1..Len(blocks) :
          Len(blocks[b].texts) >= 1 /\ Len(blocks[b].embeddings) = Len(blocks[b].texts)
    /\ Len(blocks) <= most
    /\ SearchReturnsOn(blocks)

\* C27: every RoleEmbeddingBlock parse produces holds at least one text and one
\* vector: a role with no accomplishment produces no block, so
\* embeddings.work_experience can be shorter than work_experience, and
\* find_similar_experiences never gets an empty similarity matrix from the
\* output of the parser.
C27_NoEmptyBlock ==
    Returned => BlocksHoldVectors(embeddings.work_experience, Cardinality(RolesWithAccomplishments))

\* no encode call raised, and a role without accomplishments has no block
\* while another role has one
C27_RoleWithoutBlock ==
    /\ Returned /\ encode_raised = {}
    /\ embeddings.work_experience # <<>>
    /\ Len(embeddings.work_experience) < Len(work_experience)

\* the place of a section in the fixed order of section_keywords
SectionRank(name) == CHOOSE k \in 1..Len(SectionKeywords) : SectionKeywords[k].name = name

\* the places of the sections a keyword of which the line contains
SectionsInLine(line) ==
    {k \in 1..Len(SectionKeywords) : ContainsAny(Upper(Strip(line)), SectionKeywords[k].keywords)}

\* _identify_sections has returned
SectionsIdentified == pc \in {"extract_headline", "extract_work_experience"}

\* C28: _identify_sections assigns each line to at most one section, the first
\* section in the order experience, education, skills, projects, achievements
\* that has a keyword contained in the line, so no two sections of the mapping
\* share a line index, and every recorded index is a valid line index of the
\* text.
C28_OneSectionPerLine ==
    SectionsIdentified =>
        /\ \A name \in DOMAIN sections :
              /\ 0 <= sections[name] /\ sections[name] < Len(TextLines)
              /\ SectionsInLine(TextLines[sections[name] + 1]) # {}
              /\ SectionRank(name) = SetMin(SectionsInLine(TextLines[sections[name] + 1]))
        /\ \A name, other \in DOMAIN sections : name # other => sections[name] # sections[other]

\* a recorded line holds keywords of two sections, and another section is recorded
C28_LineOfTwoSections ==
    /\ SectionsIdentified
    /\ Cardinality(DOMAIN sections) >= 2
    /\ \E name \in DOMAIN sections : Cardinality(SectionsInLine(TextLines[sections[name] + 1])) >= 2

\* _extract_education has just returned
EducationExtracted == pc = "extract_achievements"

\* C29: in every education record _extract_education returns, is_standout is
\* true if and only if standout_reasons is not empty; a resume with no detected
\* education section yields empty degree, institution, graduation_date and
\* gpa, is_standout = false and no reasons.
C29_StandoutIffReasons ==
    EducationExtracted =>
        /\ education.is_standout <=> education.standout_reasons # <<>>
        /\ "education" \notin DOMAIN sections =>
              /\ education.degree = <<>> /\ education.institution = <<>>
              /\ education.graduation_date = <<>> /\ education.gpa = <<>>
              /\ ~education.is_standout /\ education.standout_reasons = <<>>

\* no education section is detected in a text that has a GPA line
C29_GpaWithoutSection ==
    /\ EducationExtracted /\ "education" \notin DOMAIN sections
    /\ \E k \in 1..Len(TextLines) : StartsWith(TextLines[k], <<"G", "P", "A">>)

\* an education record with two reasons
C29_TwoReasons ==
    EducationExtracted /\ education.is_standout /\ Len(education.standout_reasons) = 2

\* the text _split_into_roles is given, line by line
SplitInputLines == Split(Join(ExperienceLines(resume_text, sections), NL), "\n")

\* the stripped lines that are not blank, in order
StrippedNonBlank(lines) ==
    LET kept == Ascending({k \in 1..Len(lines) : Strip(lines[k]) # <<>>})
    IN  [k \in 1..Len(kept) |-> Strip(lines[kept[k]])]

\* the blocks hold the lines, each once and in order; a role header begins a
\* block, and every block but the first begins with one
BlocksHoldLines(blocks, lines) ==
    /\ Flatten([b \in 1..Len(blocks) |-> Split(blocks[b], "\n")]) = lines
    /\ \A b \in 1..Len(blocks) :
          /\ \A k \in 2..Len(Split(blocks[b], "\n")) : ~IsRoleHeader(Split(blocks[b], "\n")[k])
          /\ b > 1 => IsRoleHeader(FirstLine(blocks[b]))

\* C30: _split_into_roles loses and duplicates no line: the lines of the blocks
\* it returns, one block after another, are the stripped non-blank lines of its
\* input in their order; a role header line is only ever the first line of a
\* block, and every block after the first begins with a role header line.  The
\* role records of parse are made of these blocks.
C30_BlocksHoldEveryLine ==
    WorkExperienceExtracted =>
        /\ BlocksHoldLines(RoleBlocks, StrippedNonBlank(SplitInputLines))
        /\ {work_experience[r].raw_text : r \in 1..Len(work_experience)} = SeqRange(RoleBlocks)

\* two blocks, the first of lines before any role header, and a blank line in
\* the input
C30_LinesBeforeFirstHeader ==
    /\ WorkExperienceExtracted /\ Len(RoleBlocks) >= 2
    /\ ~IsRoleHeader(FirstLine(RoleBlocks[1]))
    /\ Len(StrippedNonBlank(SplitInputLines)) < Len(SplitInputLines)

=============================================================================
